---- MODULE Spec2Model ----
(***************************************************************************)
(* Deterministic-first agent (autonomous-agent v3.0).                      *)
(*                                                                         *)
(* The module models                                                       *)
(*   - classifier.js : extractEntities, scoreTaskTypes, classify,          *)
(*                     planFromIntent (pure functions over strings),       *)
(*   - orchestrator.js : WorkflowOrchestrator.process and its helpers, as  *)
(*                     a state machine whose steps are the code segments   *)
(*                     between two awaits.                                 *)
(*                                                                         *)
(* JavaScript strings are TLA+ strings; a regular expression is a syntax   *)
(* tree interpreted by Ends (the set of positions where a match can end).  *)
(* JavaScript numbers are IEEE-754 doubles; the doubles the scorer can     *)
(* produce are represented exactly by the records of section 2.            *)
(***************************************************************************)
EXTENDS Integers, Sequences, FiniteSets, TLC

(***************************************************************************)
(* 1. Strings and regular expressions                                      *)
(***************************************************************************)

LowerAlpha == "abcdefghijklmnopqrstuvwxyz"
UpperAlpha == "ABCDEFGHIJKLMNOPQRSTUVWXYZ"
DigitChars == "0123456789"

CharsOf(str) == {SubSeq(str, i, i) : i \in 1..Len(str)}

\* \w of a regular expression without the u flag
WordCh == CharsOf(LowerAlpha) \cup CharsOf(UpperAlpha) \cup CharsOf(DigitChars) \cup {"_"}

\* \s restricted to the white space of the modelled inputs
SpaceCh == {" ", "\t", "\n"}

Ch(s, p) == SubSeq(s, p, p)

\* String.prototype.toLowerCase on one character
LowerCh(c) ==
    IF c \in CharsOf(UpperAlpha)
    THEN LET at == CHOOSE n \in 1..26 : SubSeq(UpperAlpha, n, n) = c
         IN  SubSeq(LowerAlpha, at, at)
    ELSE c

\* String.prototype.toLowerCase, character by character (the two halves of the
\* string are converted separately)
RECURSIVE toLowerCase(_)
toLowerCase(s) ==
    IF Len(s) = 0 THEN ""
    ELSE IF Len(s) = 1 THEN LowerCh(s)
    ELSE toLowerCase(SubSeq(s, 1, Len(s) \div 2)) \o toLowerCase(SubSeq(s, Len(s) \div 2 + 1, Len(s)))

\* String.prototype.toUpperCase on one character
UpperCh(c) ==
    IF c \in CharsOf(LowerAlpha)
    THEN LET at == CHOOSE n \in 1..26 : SubSeq(LowerAlpha, n, n) = c
         IN  SubSeq(UpperAlpha, at, at)
    ELSE c

RECURSIVE toUpperCase(_)
toUpperCase(s) ==
    IF Len(s) = 0 THEN ""
    ELSE IF Len(s) = 1 THEN UpperCh(s)
    ELSE toUpperCase(SubSeq(s, 1, Len(s) \div 2)) \o toUpperCase(SubSeq(s, Len(s) \div 2 + 1, Len(s)))

\* String.prototype.includes
includes(s, sub) ==
    \E p \in 1..(Len(s) - Len(sub) + 1) : SubSeq(s, p, p + Len(sub) - 1) = sub

SetMax(S) == CHOOSE hi \in S : \A other \in S : other <= hi
SetMin(S) == CHOOSE low \in S : \A other \in S : low <= other

\* the positions of s that hold a character other than white space
Solid(s) == {p \in 1..Len(s) : Ch(s, p) \notin SpaceCh}

\* String.prototype.trimStart, trimEnd and trim
trimStart(s) == IF Solid(s) = {} THEN "" ELSE SubSeq(s, SetMin(Solid(s)), Len(s))
trimEnd(s)   == IF Solid(s) = {} THEN "" ELSE SubSeq(s, 1, SetMax(Solid(s)))
trim(s)      == trimEnd(trimStart(s))

(* Regular-expression syntax trees.  A position p in 1..Len(s)+1 stands    *)
(* for the gap before character p.                                         *)
Lit(str)  == [t |-> "lit", s |-> str]
Cls(cs)   == [t |-> "cls", cs |-> cs]          \* [...]
NCls(cs)  == [t |-> "ncls", cs |-> cs]         \* [^...]
Cat(rs)   == [t |-> "cat", rs |-> rs]
Alt(rs)   == [t |-> "alt", rs |-> rs]
Opt(r)    == [t |-> "opt", r |-> r]            \* r?
Star(r)   == [t |-> "star", r |-> r]           \* r*
Plus(r)   == [t |-> "plus", r |-> r]           \* r+
WB        == [t |-> "wb"]                      \* \b
BOL       == [t |-> "bol"]                     \* ^
EOL       == [t |-> "eol"]                     \* $
Dot       == NCls({"\n"})                      \* .
DotStar   == Star(Dot)                         \* .*
S1        == Cls(SpaceCh)                      \* \s
NS1       == NCls(SpaceCh)                     \* \S
W1        == Cls(WordCh)                       \* \w
AltL(ss)  == Alt([alt \in DOMAIN ss |-> Lit(ss[alt])])   \* (a|b|c) of literals
Word(str) == Cat(<<WB, Lit(str), WB>>)         \* \bstr\b
WordL(ss) == Cat(<<WB, AltL(ss), WB>>)         \* \b(a|b|c)\b

IsWordAt(s, p) == p >= 1 /\ p <= Len(s) /\ Ch(s, p) \in WordCh

Positions(s) == 1..(Len(s) + 1)

\* the positions of s whose character the class c (cls or ncls) rejects
Misses(c, s) ==
    {q \in 1..Len(s) : IF c.t = "cls" THEN Ch(s, q) \notin c.cs ELSE Ch(s, q) \in c.cs}

\* c* and c+ for a character class c: a run of accepted characters that
\* starts at a position of P (atLeast is 0 for *, 1 for +)
EndsRun(c, s, P, atLeast) ==
    {e \in Positions(s) : \E p \in P : /\ p + atLeast <= e
                                       /\ \A q \in Misses(c, s) : q < p \/ q >= e}

IsClass(r) == r.t \in {"cls", "ncls"}

RECURSIVE Ends(_, _, _)
RECURSIVE EndsCat(_, _, _, _)
RECURSIVE EndsStar(_, _, _)

\* The positions at which a match of r that starts at a position of P can end.
Ends(r, s, P) ==
    IF P = {} THEN {}
    ELSE CASE r.t = "lit"  -> {p + Len(r.s) : p \in {q \in P : /\ q + Len(r.s) - 1 <= Len(s)
                                                               /\ SubSeq(s, q, q + Len(r.s) - 1) = r.s}}
           [] r.t = "cls"  -> {p + 1 : p \in {q \in P : q <= Len(s) /\ Ch(s, q) \in r.cs}}
           [] r.t = "ncls" -> {p + 1 : p \in {q \in P : q <= Len(s) /\ Ch(s, q) \notin r.cs}}
           [] r.t = "cat"  -> EndsCat(r.rs, 1, s, P)
           [] r.t = "alt"  -> UNION {Ends(r.rs[n], s, P) : n \in DOMAIN r.rs}
           [] r.t = "opt"  -> P \cup Ends(r.r, s, P)
           [] r.t = "star" -> IF IsClass(r.r) THEN EndsRun(r.r, s, P, 0)
                                               ELSE EndsStar(r.r, s, P)
           [] r.t = "plus" -> IF IsClass(r.r) THEN EndsRun(r.r, s, P, 1)
                                               ELSE EndsStar(r.r, s, Ends(r.r, s, P))
           [] r.t = "wb"   -> {p \in P : IsWordAt(s, p - 1) # IsWordAt(s, p)}
           [] r.t = "bol"  -> P \cap {1}
           [] r.t = "eol"  -> P \cap {Len(s) + 1}

EndsCat(rs, i, s, P) ==
    IF i > Len(rs) THEN P ELSE EndsCat(rs, i + 1, s, Ends(rs[i], s, P))

EndsStar(r, s, P) ==
    IF Ends(r, s, P) \subseteq P THEN P ELSE EndsStar(r, s, P \cup Ends(r, s, P))

\* RegExp.prototype.test with the i flag: the patterns hold lower-case
\* literals and case-closed classes only, so they are matched against the
\* lower-cased subject.
test(r, s) == Ends(r, toLowerCase(s), Positions(s)) # {}

\* Leftmost position at which r matches s (0 when there is none).
FirstStart(r, s) ==
    IF \A p \in Positions(s) : Ends(r, s, {p}) = {} THEN 0
    ELSE SetMin({p \in Positions(s) : Ends(r, s, {p}) # {}})

(***************************************************************************)
(* 2. JavaScript numbers                                                   *)
(*                                                                         *)
(* Every score is a sum or difference of the literals 0.3, 0.1, 0.2, 0.15, *)
(* 0.05, 0.4 and 1.0, computed in IEEE-754 double precision with round to  *)
(* nearest, ties to even.  A double d is held exactly as the record        *)
(* [m, e] with  d = m/20 + e * 2^-57 / 20 : m counts twentieths and e is   *)
(* the (tiny) distance of d from m/20, in units of 2^-57/20.  Doubles of   *)
(* magnitude 2^-5 and more are multiples of 2^-57, so e is an integer.     *)
(***************************************************************************)

RECURSIVE Pow2(_)
Pow2(n) == IF n = 0 THEN 1 ELSE 2 * Pow2(n - 1)

RECURSIVE Pow2Mod(_, _)
Pow2Mod(n, q) == IF n = 0 THEN 1 % q ELSE (2 * Pow2Mod(n - 1, q)) % q

\* The binade of the positive exact value m/20 + e*u: the largest j with
\* value >= 2^(j-5); a unit in the last place is then 20 * 2^j units.
Binade(m, e) ==
    SetMax({j \in 0..9 : m * 8 > 5 * Pow2(j) \/ (m * 8 = 5 * Pow2(j) /\ e >= 0)})

\* Round to nearest, ties to even: rem2 is the exact value modulo two units
\* in the last place, so rem2 % ulp is the excess over the double below and
\* rem2 >= ulp says that the double below is odd.
RoundTo(m, e, ulp, rem2) ==
    IF rem2 % ulp = 0 THEN [m |-> m, e |-> e]
    ELSE IF 2 * (rem2 % ulp) < ulp THEN [m |-> m, e |-> e - (rem2 % ulp)]
    ELSE IF 2 * (rem2 % ulp) > ulp THEN [m |-> m, e |-> e - (rem2 % ulp) + ulp]
    ELSE IF rem2 >= ulp THEN [m |-> m, e |-> e - (rem2 % ulp) + ulp]
    ELSE [m |-> m, e |-> e - (rem2 % ulp)]

\* A unit in the last place of the binade bin is 20 * 2^bin units; the exact
\* value (m * 2^57 + e) is reduced modulo two of them, with
\* 2^57 = 2^(bin+3) * 2^(54-bin).
RoundIn(m, e, bin) ==
    RoundTo(m, e, 20 * Pow2(bin),
            (Pow2(bin + 3) * (((m % 5) * Pow2Mod(54 - bin, 5)) % 5) + e) % (40 * Pow2(bin)))

\* Round the positive exact value m/20 + e*u to the nearest double.
RoundPos(m, e) == RoundIn(m, e, Binade(m, e))

\* Values below 2^-5 that arise (differences of nearby doubles) are exact.
Round(m, e) ==
    IF m = 0 THEN [m |-> 0, e |-> e]
    ELSE IF m > 0 THEN RoundPos(m, e)
    ELSE [m |-> -(RoundPos(-m, -e).m), e |-> -(RoundPos(-m, -e).e)]

Num(m)     == Round(m, 0)                      \* the literal m/20
NumAdd(a, b) == Round(a.m + b.m, a.e + b.e)    \* a + b
NumSub(a, b) == Round(a.m - b.m, a.e - b.e)    \* a - b
NumLt(a, b)  == a.m < b.m \/ (a.m = b.m /\ a.e < b.e)   \* a < b

\* no cap: the first argument as it is
NumFirst(a, b) == a

NumMin(a, b) == IF NumLt(b, a) THEN b ELSE a   \* Math.min(a, b)

Zero == [m |-> 0, e |-> 0]

(***************************************************************************)
(* 3. classifier.js                                                        *)
(***************************************************************************)

\* contents?  and  files?  and so on: a literal with an optional last letter
LitOpt(str, c) == Cat(<<Lit(str), Opt(Lit(c))>>)

\* Task type definitions, in the order of the object literal (Object.entries
\* keeps insertion order).
TASK_TYPES ==
  <<
    [id |-> "file_read",
     patterns |-> <<
        Cat(<<Word("read"), DotStar, Word("file")>>),
        Cat(<<Word("show"), DotStar, WB, Alt(<<LitOpt("content", "s"), Lit("file"), Lit("code")>>), WB>>),
        Cat(<<Word("cat"), Plus(S1), Plus(NS1)>>),
        Cat(<<Word("view"), DotStar, WordL(<<"file", "source", "code">>)>>),
        Cat(<<Word("open"), DotStar, WordL(<<"file", "document">>)>>),
        Cat(<<Word("display"), DotStar, WB, Alt(<<Lit("file"), LitOpt("content", "s")>>), WB>>),
        Cat(<<WB, Lit("what"), Alt(<<Cat(<<Opt(Lit("'")), Lit("s")>>), Lit(" is")>>), Lit(" in"), WB,
              DotStar, WordL(<<"file", "folder", "directory">>)>>),
        Cat(<<Word("list"), DotStar, WB,
              Alt(<<LitOpt("file", "s"), Lit("directory"), Lit("folder"), Lit("dir")>>), WB>>),
        Cat(<<Word("ls"), S1>>) >>,
     keywords |-> <<"read", "show", "view", "cat", "display", "contents", "open", "list", "ls", "dir">>,
     tools |-> <<"read_file", "list_directory">>,
     confidence_boost |-> Num(2)],

    [id |-> "file_write",
     patterns |-> <<
        Cat(<<WordL(<<"create", "write", "save", "make">>), DotStar, Word("file")>>),
        Cat(<<Word("write"), DotStar, Word("to")>>),
        Cat(<<Word("save"), DotStar, WordL(<<"as", "to">>)>>),
        Cat(<<Word("create"), DotStar, WordL(<<"file", "script", "module", "component">>)>>),
        Cat(<<Word("generate"), DotStar, WordL(<<"file", "code", "script">>)>>),
        Cat(<<Word("add"), DotStar, Word("file")>>),
        Cat(<<Word("new"), DotStar, WordL(<<"file", "script">>)>>) >>,
     keywords |-> <<"create", "write", "save", "generate", "new file", "make file">>,
     tools |-> <<"create_file">>,
     confidence_boost |-> Num(2)],

    [id |-> "file_edit",
     patterns |-> <<
        Cat(<<WordL(<<"edit", "modify", "update", "change", "fix", "patch", "refactor">>), DotStar,
              WordL(<<"file", "code", "function", "class", "line">>)>>),
        Cat(<<WordL(<<"edit", "fix", "modify", "update", "patch">>), Plus(S1), Plus(NS1), Lit("."), Plus(W1)>>),
        Cat(<<WordL(<<"fix", "debug">>), DotStar, WordL(<<"bug", "issue", "error", "problem">>),
              DotStar, Word("in")>>),
        Cat(<<Word("replace"), DotStar, WordL(<<"in", "with">>)>>),
        Cat(<<Word("insert"), DotStar, WordL(<<"into", "at", "before", "after">>)>>),
        Cat(<<Word("remove"), DotStar, WordL(<<"from", "line", "function">>)>>),
        Cat(<<Word("delete"), DotStar, WordL(<<"line", "function", "block">>)>>),
        Cat(<<Word("append"), DotStar, Word("to")>>) >>,
     keywords |-> <<"edit", "modify", "update", "change", "fix", "refactor", "replace", "insert", "append">>,
     tools |-> <<"edit_file", "read_file">>,
     confidence_boost |-> Num(4)],

    [id |-> "shell_command",
     patterns |-> <<
        Cat(<<Word("run"), DotStar, WordL(<<"command", "script", "npm", "node", "python", "bash", "shell">>)>>),
        Word("execute"),
        Cat(<<Word("install"), DotStar, WordL(<<"package", "dependency", "module", "npm", "pip">>)>>),
        Cat(<<Word("npm"), Plus(S1),
              AltL(<<"install", "run", "start", "test", "build", "init", "publish", "audit">>)>>),
        Cat(<<Word("pip"), Plus(S1), Lit("install")>>),
        Cat(<<Word("git"), Plus(S1),
              AltL(<<"clone", "pull", "push", "commit", "status", "log", "diff", "branch", "checkout">>)>>),
        Cat(<<Word("docker"), Plus(S1), AltL(<<"build", "run", "compose", "pull", "push">>)>>),
        Cat(<<Word("curl"), S1>>),
        Cat(<<Word("wget"), S1>>),
        Word("chmod"),
        Word("mkdir"),
        Cat(<<Word("npx"), S1>>) >>,
     keywords |-> <<"run", "execute", "install", "npm", "pip", "git", "docker", "curl", "bash", "shell", "command">>,
     tools |-> <<"run_command">>,
     confidence_boost |-> Num(4)],

    [id |-> "http_request",
     patterns |-> <<
        Cat(<<WordL(<<"fetch", "get", "post", "put", "delete", "patch">>), DotStar, WB,
              AltL(<<"api", "endpoint", "url", "http">>)>>),
        Cat(<<Word("call"), DotStar, WordL(<<"api", "endpoint", "service">>)>>),
        Cat(<<Word("request"), DotStar, WordL(<<"to", "from">>), DotStar, WB, AltL(<<"api", "url", "http">>)>>),
        Cat(<<WB, Lit("http"), Opt(Cls({"s"})), Lit("://")>>),
        Cat(<<Word("api"), DotStar, WordL(<<"call", "request", "fetch">>)>>),
        Word("webhook") >>,
     keywords |-> <<"fetch", "api", "endpoint", "request", "http", "url", "webhook", "REST">>,
     tools |-> <<"http_request">>,
     confidence_boost |-> Num(3)],

    [id |-> "code_analysis",
     patterns |-> <<
        Cat(<<WordL(<<"analyse", "analyze", "review", "inspect", "audit", "lint", "check">>), DotStar,
              WordL(<<"code", "file", "function", "module", "project">>)>>),
        Cat(<<Word("find"), DotStar, WB,
              Alt(<<LitOpt("bug", "s"), LitOpt("issue", "s"), LitOpt("error", "s"), LitOpt("problem", "s")>>), WB>>),
        Cat(<<Word("code"), DotStar, WordL(<<"review", "quality", "smell">>)>>),
        Cat(<<Word("what"), DotStar, WordL(<<"does", "is">>), DotStar, WordL(<<"this", "the">>), DotStar,
              WordL(<<"code", "function", "class">>)>>),
        Cat(<<Word("explain"), DotStar, WordL(<<"code", "function", "class", "module">>)>>),
        Word("debug") >>,
     keywords |-> <<"analyse", "review", "inspect", "audit", "lint", "debug", "explain code", "code review">>,
     tools |-> <<"read_file", "search_files", "run_command">>,
     confidence_boost |-> Num(1)],

    [id |-> "project_scaffold",
     patterns |-> <<
        Cat(<<WordL(<<"scaffold", "bootstrap", "initialise", "initialize", "setup", "set up", "start">>), DotStar,
              WordL(<<"project", "app", "application", "repo", "repository">>)>>),
        Cat(<<Word("new"), DotStar, WordL(<<"project", "app", "application">>)>>),
        Cat(<<Word("create"), DotStar, WordL(<<"project", "app", "application", "repo">>)>>),
        Word("init") >>,
     keywords |-> <<"scaffold", "bootstrap", "initialise", "setup", "new project", "create app", "init">>,
     tools |-> <<"run_command", "create_file", "run_command">>,
     confidence_boost |-> Num(2)],

    [id |-> "search",
     patterns |-> <<
        Cat(<<WordL(<<"search", "find", "grep", "look for", "locate">>), DotStar,
              WordL(<<"in", "for", "across">>)>>),
        Cat(<<Word("where"), DotStar, WordL(<<"is", "are", "does">>)>>),
        Word("grep"),
        Cat(<<Word("find"), DotStar,
              WordL(<<"file", "function", "class", "variable", "string", "text", "pattern">>)>>) >>,
     keywords |-> <<"search", "find", "grep", "locate", "where is">>,
     tools |-> <<"search_files", "run_command">>,
     confidence_boost |-> Num(2)],

    [id |-> "testing",
     patterns |-> <<
        WordL(<<"test", "spec", "assert", "verify", "validate">>),
        Cat(<<Word("run"), DotStar, WB, LitOpt("test", "s"), WB>>),
        Cat(<<Word("write"), DotStar, WordL(<<"test", "spec">>)>>),
        Cat(<<WB, Lit("unit"), Star(S1), Lit("test")>>),
        Cat(<<WB, Lit("integration"), Star(S1), Lit("test")>>),
        Word("coverage") >>,
     keywords |-> <<"test", "spec", "assert", "verify", "coverage", "unit test", "integration test">>,
     tools |-> <<"run_command", "create_file", "read_file">>,
     confidence_boost |-> Num(2)],

    [id |-> "deployment",
     patterns |-> <<
        Cat(<<WordL(<<"deploy", "release", "publish", "ship", "push to">>), DotStar,
              WordL(<<"production", "staging", "server", "cloud", "npm", "docker">>)>>),
        Cat(<<Word("build"), DotStar, WordL(<<"for", "and">>), DotStar, WB, AltL(<<"production", "deploy">>)>>),
        Cat(<<WB, Lit("ci"), Opt(Lit("/")), Lit("cd"), WB>>),
        Word("pipeline") >>,
     keywords |-> <<"deploy", "release", "publish", "ship", "production", "staging", "CI/CD", "pipeline">>,
     tools |-> <<"run_command", "create_file">>,
     confidence_boost |-> Num(2)]
  >>

\* File path detection regex
PathCh == Cls(WordCh \cup {".", "-"})                    \* [\w.-]

FILE_PATH_PATTERN ==
    Cat(<<Alt(<<BOL, S1>>),
          Opt(Cat(<<Opt(Cat(<<Lit("."), Opt(Lit("."))>>)), Lit("/")>>)),      \* (?:\.{0,2}\/)?
          Star(Cat(<<Plus(PathCh), Lit("/")>>)),
          Plus(PathCh), Lit("."), Plus(W1),
          Alt(<<S1, EOL>>)>>)

ABSOLUTE_PATH_PATTERN ==
    Cat(<<Alt(<<BOL, S1>>),
          Lit("/"), Star(Cat(<<Plus(PathCh), Lit("/")>>)), Plus(PathCh),
          Alt(<<S1, EOL>>)>>)

URL_PATTERN == Cat(<<Lit("http"), Opt(Lit("s")), Lit("://"), Plus(NS1)>>)

\* String.prototype.match with a g-flag expression: the successive,
\* non-overlapping matches, each searched from the end of the one before.
\* For the three expressions above the end of a match from a given start is
\* either unique or (greedy [^\s]+) the largest.
RECURSIVE matchAll(_, _, _)
matchAll(r, s, from) ==
    LET starts == {p \in from..(Len(s) + 1) : Ends(r, s, {p}) # {}}
    IN  IF starts = {} THEN <<>>
        ELSE LET first == SetMin(starts)
                 last  == SetMax(Ends(r, s, {first}))
             IN  <<<<first, last>>>> \o matchAll(r, s, IF last = first THEN first + 1 ELSE last)

\* the matched texts of s; sub is the subject the expression is run on
\* (s itself, or s in lower case for an i-flag expression)
MatchTexts(r, s, sub) ==
    LET found == matchAll(r, sub, 1)
    IN  [n \in DOMAIN found |-> SubSeq(s, found[n][1], found[n][2] - 1)]

\* String.prototype.split(/\s+/) of a text that neither starts nor ends
\* with white space
RECURSIVE splitSpaces(_)
splitSpaces(s) ==
    LET blanks == {p \in 1..Len(s) : Ch(s, p) \in SpaceCh}
    IN  IF blanks = {} THEN <<s>>
        ELSE LET cut == SetMin(blanks)
             IN  <<SubSeq(s, 1, cut - 1)>> \o splitSpaces(trimStart(SubSeq(s, cut, Len(s))))

\* input.match(/<tool>\s+install\s+(<ch>+(?:\s+<ch>+)*)/i)?.[1].split(/\s+/)
InstallPackages(tool, chars, input) ==
    LET lower   == toLowerCase(input)
        prefix  == Cat(<<Lit(tool), Plus(S1), Lit("install"), Plus(S1)>>)
        list    == Cat(<<Plus(Cls(chars)), Star(Cat(<<Plus(S1), Plus(Cls(chars))>>))>>)
        at      == FirstStart(Cat(<<prefix, list>>), lower)
    IN  IF at = 0 THEN <<>>
        ELSE LET capFrom == SetMax(Ends(prefix, lower, {at}))      \* \s+ is greedy
                 capTo   == SetMax(Ends(list, lower, {capFrom}))   \* the list is greedy
             IN  splitSpaces(SubSeq(input, capFrom, capTo - 1))

GitOperations ==
    <<"clone", "pull", "push", "commit", "status", "log", "diff", "branch", "checkout",
      "merge", "rebase", "stash", "tag">>

\* input.match(/git\s+(clone|...|tag)(?:\s+(.+?))?(?:\s*$)/i)
\* The lazy group 2 stretches to the last non-blank character, so that after
\* trim() the arguments are the trimmed rest of the input.
GitMatch(input) ==
    LET lower   == toLowerCase(input)
        head(n) == Cat(<<Lit("git"), Plus(S1), Lit(GitOperations[n])>>)
        rest    == Cat(<<Opt(Cat(<<Plus(S1), Plus(Dot)>>)), Star(S1), EOL>>)
        whole   == Cat(<<Lit("git"), Plus(S1), AltL(GitOperations), rest>>)
        at      == FirstStart(whole, lower)
    IN  IF at = 0 THEN <<>>
        ELSE LET op    == SetMin({n \in DOMAIN GitOperations :
                                    Ends(Cat(<<head(n), rest>>), lower, {at}) # {}})
                 opEnd == SetMax(Ends(head(op), lower, {at}))
             IN  <<[operation |-> toLowerCase(SubSeq(input, opEnd - Len(GitOperations[op]), opEnd - 1)),
                    args      |-> trim(SubSeq(input, opEnd, Len(input)))]>>

TrimAll(ss) == [n \in DOMAIN ss |-> trim(ss[n])]

\* Extract structured entities from user input
extractEntities(input) ==
    LET relMatches == MatchTexts(FILE_PATH_PATTERN, input, input)
        absMatches == MatchTexts(ABSOLUTE_PATH_PATTERN, input, input)
        urlMatches == MatchTexts(URL_PATTERN, input, toLowerCase(input))
    IN  [filePaths |-> TrimAll(relMatches) \o TrimAll(absMatches),
         urls      |-> urlMatches,
         commands  |-> <<>>,
         packages  |-> InstallPackages("npm", WordCh \cup {"@", "/", ".", "-"}, input)
                         \o InstallPackages("pip", WordCh \cup {".", "-"}, input),
         gitOps    |-> GitMatch(input)]

\* score += inc, cnt times over
RECURSIVE AddTimes(_, _, _)
AddTimes(base, inc, cnt) ==
    IF cnt = 0 THEN base ELSE NumAdd(AddTimes(base, inc, cnt - 1), inc)

\* for (const pattern of taskType.patterns) if (pattern.test(input)) { score += 0.3; matchedPatterns++ }
\* (the task-type patterns all carry the i flag)
ScorePatterns(patterns, lo) ==
    Cardinality({ix \in DOMAIN patterns : Ends(patterns[ix], lo, Positions(lo)) # {}})

\* for (const keyword of taskType.keywords) if (inputLower.includes(keyword.toLowerCase())) { score += 0.1; ... }
ScoreKeywords(keywords, lo) ==
    Cardinality({ix \in DOMAIN keywords : includes(lo, toLowerCase(keywords[ix]))})

\* if (cond) score += taskType.confidence_boost
Boost(score, cond, taskType) ==
    IF cond THEN NumAdd(score, taskType.confidence_boost) ELSE score

\* Entity-based confidence boost: four independent if statements
EntityBoost(score, taskType, entities) ==
    Boost(Boost(Boost(Boost(score,
        Len(entities.filePaths) > 0 /\ taskType.id \in {"file_read", "file_write", "file_edit", "code_analysis"}, taskType),
        Len(entities.urls) > 0 /\ taskType.id = "http_request", taskType),
        Len(entities.gitOps) > 0 /\ taskType.id = "shell_command", taskType),
        Len(entities.packages) > 0 /\ taskType.id = "shell_command", taskType)

\* scores.push({ taskType, confidence: Math.min(score, 1.0), ... }) for pat
\* matched patterns and kw matched keywords
Candidate(taskType, entities, pat, kw) ==
    [taskType |-> taskType.id,
     confidence |-> NumMin(EntityBoost(AddTimes(AddTimes(Zero, Num(6), pat), Num(2), kw),
                                       taskType, entities),
                           Num(20)),
     matchedPatterns |-> pat,
     matchedKeywords |-> kw,
     tools |-> taskType.tools,
     entities |-> entities]

\* One iteration of the scoring loop: the candidate of a task type, with its
\* confidence capped at 1.0
ScoreOne(taskType, lo, entities) ==
    Candidate(taskType, entities,
              ScorePatterns(taskType.patterns, lo), ScoreKeywords(taskType.keywords, lo))

\* if (score > 0) scores.push(...)
Scored(cand) == NumLt(Zero, cand.confidence)

\* SortRank of a sort that puts an element before the equal ones that
\* precede it
SortRankTiesReversed(scores, ix) ==
    1 + Cardinality({jx \in DOMAIN scores :
                        \/ NumLt(NumSub(scores[ix].confidence, scores[jx].confidence), Zero)
                        \/ /\ jx > ix
                           /\ NumSub(scores[jx].confidence, scores[ix].confidence) = Zero})

\* Array.prototype.sort((a, b) => b.confidence - a.confidence) is stable: an
\* element goes behind the larger ones and behind the equal ones that
\* precede it.
SortRank(scores, ix) ==
    1 + Cardinality({jx \in DOMAIN scores :
                        \/ NumLt(NumSub(scores[ix].confidence, scores[jx].confidence), Zero)
                        \/ /\ jx < ix
                           /\ NumSub(scores[jx].confidence, scores[ix].confidence) = Zero})

SortByConfidence(scores) ==
    [rk \in DOMAIN scores |-> scores[CHOOSE ix \in DOMAIN scores : SortRank(scores, ix) = rk]]

\* the scoring loop over Object.entries(TASK_TYPES)
ScoreAll(inputLower, entities) ==
    [tx \in DOMAIN TASK_TYPES |-> ScoreOne(TASK_TYPES[tx], inputLower, entities)]

\* Score each task type against the input
scoreTaskTypes(input) ==
    SortByConfidence(SelectSeq(ScoreAll(toLowerCase(input), extractEntities(input)), Scored))

\* Array.prototype.slice(0, n)
Slice0(seq, n) == SubSeq(seq, 1, IF Len(seq) < n THEN Len(seq) ELSE n)

\* the return statement of classify for a top score at or above the threshold
Decided(scores, top, isAmbiguous) ==
    [intent |-> top.taskType, confidence |-> top.confidence,
     needsModel |-> isAmbiguous,
     reason |-> IF isAmbiguous THEN "ambiguous_top_scores" ELSE "deterministic_match",
     tools |-> top.tools, entities |-> top.entities,
     allScores |-> Slice0(scores, 3)]

\* DecideTop without the test of the threshold
DecideTopNoThreshold(scores, top, threshold) ==
    Decided(scores, top,
            /\ Len(scores) > 1
            /\ NumLt(NumSub(top.confidence, scores[2].confidence), Num(2)))

\* classify once scoreTaskTypes has returned a non-empty list with first
\* element top
DecideTop(scores, top, threshold) ==
    IF ~NumLt(top.confidence, threshold)
    THEN Decided(scores, top,
                 /\ Len(scores) > 1
                 /\ NumLt(NumSub(top.confidence, scores[2].confidence), Num(2)))
    ELSE [intent |-> top.taskType, confidence |-> top.confidence,
          needsModel |-> TRUE, reason |-> "low_confidence",
          tools |-> top.tools, entities |-> top.entities,
          allScores |-> Slice0(scores, 3)]

\* classify once scoreTaskTypes has returned scores
Decide(scores, input, threshold) ==
    IF Len(scores) = 0
    THEN [intent |-> "unknown", confidence |-> Zero, needsModel |-> TRUE,
          reason |-> "no_pattern_match", tools |-> <<>>,
          entities |-> extractEntities(input), allScores |-> <<>>]
    ELSE DecideTop(scores, scores[1], threshold)

\* Classify user intent
classify(input, threshold) == Decide(scoreTaskTypes(input), input, threshold)

\* JavaScript's null and undefined.  They are compared with strings (an
\* argument is a string or null), so they are strings no input can contain.
Null      == "<null>"
Undefined == "<undefined>"

\* input.match(/\b(post|put|patch|delete)\b/i)[1]
HttpVerbs == <<"post", "put", "patch", "delete">>

HttpMethod(input) ==
    LET lower == toLowerCase(input)
        at    == FirstStart(WordL(HttpVerbs), lower)
    IN  IF at = 0 THEN "GET"
        ELSE LET verb == SetMin({n \in DOMAIN HttpVerbs : Ends(Word(HttpVerbs[n]), lower, {at}) # {}})
             IN  toUpperCase(SubSeq(input, at, at + Len(HttpVerbs[verb]) - 1))

\* input.match(/(?:search|find|grep|look for|locate)\s+(?:for\s+)?["']?(.+?)["']?\s+(?:in|across|within)/i)
\* The result is <<>> (no match) or <<group 1>>.  Backtracking tries, in this
\* order: the verbs left to right, the longest \s+, the group (?:for\s+)? taken
\* and with its longest \s+, the opening quote taken, the shortest (.+?).
SearchVerbs == <<"search", "find", "grep", "look for", "locate">>
Quote == Cls({"\"", "'"})

SearchMatch(input) ==
    LET lower == toLowerCase(input)
        tail  == Cat(<<Opt(Quote), Plus(S1), AltL(<<"in", "across", "within">>)>>)
        body  == Cat(<<Plus(S1), Opt(Cat(<<Lit("for"), Plus(S1)>>)), Opt(Quote), Plus(Dot), tail>>)
        at    == FirstStart(Cat(<<AltL(SearchVerbs), body>>), lower)
    IN  IF at = 0 THEN <<>>
        ELSE LET verb     == SetMin({n \in DOMAIN SearchVerbs :
                                       Ends(Cat(<<Lit(SearchVerbs[n]), body>>), lower, {at}) # {}})
                 verbEnd  == at + Len(SearchVerbs[verb])
                 okCap(from)   == {to \in Ends(Plus(Dot), lower, {from}) : Ends(tail, lower, {to}) # {}}
                 okQuote(from) == {to \in {from} \cup Ends(Quote, lower, {from}) : okCap(to) # {}}
                 okFor(from)   == {to \in {from} \cup Ends(Cat(<<Lit("for"), Plus(S1)>>), lower, {from}) :
                                     okQuote(to) # {}}
                 okBlank       == {to \in Ends(Plus(S1), lower, {verbEnd}) : okFor(to) # {}}
                 blankEnd == SetMax(okBlank)
                 forEnd   == SetMax(okFor(blankEnd))
                 capFrom  == SetMax(okQuote(forEnd))
                 capTo    == SetMin(okCap(capFrom))
             IN  <<SubSeq(input, capFrom, capTo - 1)>>

\* TOOL_DEFINITIONS[name].input_schema.required
Required(tool) ==
    CASE tool = "create_file"    -> {"path", "content"}
      [] tool = "read_file"      -> {"path"}
      [] tool = "edit_file"      -> {"path", "old_str", "new_str"}
      [] tool = "run_command"    -> {"command"}
      [] tool = "http_request"   -> {"method", "url"}
      [] tool = "list_directory" -> {"path"}
      [] tool = "delete_file"    -> {"path"}
      [] tool = "move_file"      -> {"from", "to"}
      [] tool = "git"            -> {"args"}
      [] tool = "search_files"   -> {"pattern", "path"}
      [] tool = "task_complete"  -> {"summary"}
      [] tool = "task_failed"    -> {"reason"}
      [] OTHER                   -> {}

\* a step whose arguments are all left as the null placeholder
StepUnfilled(tool, args) == [tool |-> tool, args |-> [a \in DOMAIN args |-> Null]]

Step(tool, args) == [tool |-> tool, args |-> args]

\* FirstPath that takes the last path found
FirstPathFromEnd(entities) ==
    IF Len(entities.filePaths) > 0 /\ entities.filePaths[Len(entities.filePaths)] # ""
    THEN entities.filePaths[Len(entities.filePaths)] ELSE Null

\* entities.filePaths[0] || null
FirstPath(entities) ==
    IF Len(entities.filePaths) > 0 /\ entities.filePaths[1] # ""
    THEN entities.filePaths[1] ELSE Null

RECURSIVE JoinFrom(_, _, _)
JoinFrom(ss, sep, k) ==
    IF k > Len(ss) THEN ""
    ELSE IF k = Len(ss) THEN ss[k]
    ELSE ss[k] \o sep \o JoinFrom(ss, sep, k + 1)

\* Array.prototype.join
Join(ss, sep) == JoinFrom(ss, sep, 1)

\* Generate a deterministic task plan from classified intent
planFromIntent(classification, input) ==
    LET intent == classification.intent
        found  == classification.entities
        plan(steps, needsModel) ==
            [intent |-> intent, steps |-> steps, requiresModelForPlanning |-> needsModel]
        target == FirstPath(found)
    IN  CASE intent = "file_read" ->
                IF target # Null
                THEN plan(<<Step("read_file", [path |-> target])>>, FALSE)
                ELSE plan(<<Step("list_directory", [path |-> "."])>>, TRUE)
          [] intent = "file_write" ->
                IF target # Null
                THEN plan(<<Step("create_file", [path |-> target, content |-> Null])>>, TRUE)
                ELSE plan(<<>>, TRUE)
          [] intent = "file_edit" ->
                IF target # Null
                THEN plan(<<Step("read_file", [path |-> target]),
                            Step("edit_file", [path |-> target, edits |-> Null])>>, TRUE)
                ELSE plan(<<>>, TRUE)
          [] intent = "shell_command" ->
                IF Len(found.gitOps) > 0
                THEN LET op == found.gitOps[1]
                     IN  plan(<<Step("run_command",
                                     [command |-> "git " \o op.operation
                                                   \o (IF op.args # "" THEN " " \o op.args ELSE "")])>>,
                              FALSE)
                ELSE IF Len(found.packages) > 0
                THEN LET isNpm == includes(toLowerCase(input), "npm")
                         cmd   == IF isNpm THEN "npm install " \o Join(found.packages, " ")
                                           ELSE "pip install " \o Join(found.packages, " ")
                     IN  plan(<<Step("run_command", [command |-> cmd])>>, FALSE)
                ELSE plan(<<>>, TRUE)
          [] intent = "http_request" ->
                IF Len(found.urls) > 0
                THEN plan(<<Step("http_request",
                                 [url |-> found.urls[1], method |-> HttpMethod(input),
                                  body |-> Null, headers |-> "{}"])>>, FALSE)
                ELSE plan(<<>>, TRUE)
          [] intent = "search" ->
                LET searchMatch == SearchMatch(input)
                IN  IF searchMatch # <<>>
                    THEN plan(<<Step("search_files",
                                     [path |-> IF target # Null THEN target ELSE ".",
                                      pattern |-> trim(searchMatch[1])])>>, FALSE)
                    ELSE plan(<<>>, TRUE)
          [] intent = "testing" ->
                IF test(Cat(<<Word("run"), DotStar, WB, LitOpt("test", "s"), WB>>), input)
                THEN plan(<<Step("run_command", [command |-> "npm test"])>>, FALSE)
                ELSE plan(<<>>, TRUE)
          [] OTHER -> plan(<<>>, TRUE)

(***************************************************************************)
(* 4. orchestrator.js : values, validators, templates, metrics             *)
(*                                                                         *)
(* A JavaScript object is a record; a property an object does not have is  *)
(* a field the record does not have (Has).  The field "type" is a tag of   *)
(* the model, never a property.                                            *)
(***************************************************************************)

\* the value undefined where objects are expected (a result, a thrown value)
UndefinedV  == [type |-> "undefined"]
EmptyObject == [type |-> "object"]
Text(str)   == [type |-> "string", text |-> str]
Error(msg)  == [type |-> "Error", message |-> msg]

\* calling a property that is undefined
NotAFunction(callee) == [type |-> "TypeError", message |-> callee \o " is not a function"]

\* reading .message (or any property) of undefined
TypeError   == [type |-> "TypeError", message |-> "Cannot read properties of undefined"]

Has(obj, field) == field \in DOMAIN obj

\* truthiness of a result: undefined is falsy, an object is truthy
Truthy(val) == val # UndefinedV

\* truthiness of a string-valued property
TruthyField(obj, field) == Has(obj, field) /\ obj[field] \notin {"", Undefined, Null}

\* obj?.field for a string-valued property
Field(obj, field) == IF Has(obj, field) THEN obj[field] ELSE Undefined

\* { ...a, ...b }
Spread(obj)  == IF obj = UndefinedV THEN EmptyObject ELSE obj
Merge(a, b)  == [fld \in DOMAIN Spread(a) \cup DOMAIN Spread(b) |->
                    IF fld \in DOMAIN Spread(b) THEN Spread(b)[fld] ELSE Spread(a)[fld]]

\* decimal notation of a natural number (template literal `${n}`)
RECURSIVE Decimal(_)
Decimal(num) ==
    IF num < 10 THEN SubSeq(DigitChars, num + 1, num + 1)
    ELSE Decimal(num \div 10) \o SubSeq(DigitChars, (num % 10) + 1, (num % 10) + 1)

\* Workflow states
STATES ==
    [INIT |-> "init", CLASSIFYING |-> "classifying", PLANNING |-> "planning",
     EXECUTING |-> "executing", VALIDATING |-> "validating",
     MODEL_FALLBACK |-> "model_fallback", RESPONDING |-> "responding",
     COMPLETE |-> "complete", ERROR |-> "error"]

\* VALIDATORS[classification.intent] || VALIDATORS.default
ValidatorFor(intent) ==
    IF intent \in {"file_read", "file_write", "file_edit", "shell_command", "http_request", "search"}
    THEN intent ELSE "default"

\* the reason a file validator gives when the result carries no error text
NoErrorReason(key) ==
    CASE key = "file_read"  -> "no_result"
      [] key = "file_write" -> "write_failed"
      [] key = "file_edit"  -> "edit_failed"
      [] OTHER              -> "unknown_error"

\* Validation rules: VALIDATORS[key](result)
VALIDATORS(key, result) ==
    CASE key \in {"file_read", "file_write", "file_edit", "default"} ->
            IF ~Truthy(result) \/ TruthyField(result, "error")
            THEN [valid |-> FALSE,
                  reason |-> IF TruthyField(result, "error") THEN result.error ELSE NoErrorReason(key)]
            ELSE [valid |-> TRUE]
      [] key = "shell_command" ->
            IF ~Truthy(result) THEN [valid |-> FALSE, reason |-> "no_result"]
            ELSE IF Has(result, "exitCode") /\ result.exitCode # 0
            THEN [valid |-> FALSE, reason |-> "exit_code_" \o Decimal(result.exitCode),
                  stderr |-> Field(result, "stderr")]
            ELSE [valid |-> TRUE]
      [] key = "http_request" ->
            IF ~Truthy(result) THEN [valid |-> FALSE, reason |-> "no_result"]
            ELSE IF Has(result, "status") /\ result.status >= 400
            THEN [valid |-> FALSE, reason |-> "http_" \o Decimal(result.status)]
            ELSE [valid |-> TRUE]
      [] key = "search" ->
            IF ~Truthy(result) THEN [valid |-> FALSE, reason |-> "no_result"] ELSE [valid |-> TRUE]

\* RESPONSE_TEMPLATES[classification.intent] || RESPONSE_TEMPLATES.default
TemplateFor(intent) ==
    IF intent \in {"file_read", "file_write", "shell_command", "http_request", "search"}
    THEN intent ELSE "default"

\* The templates of file_read, file_write and shell_command read
\* plan.steps[0], which throws a TypeError when the plan has no steps property.
TemplateThrows(key, plan) ==
    key \in {"file_read", "file_write", "shell_command"} /\ ~Has(plan, "steps")

\* RESPONSE_TEMPLATES[key][branch](result, plan): the response is kept as the
\* template that was applied and the value it was applied to.
RESPONSE_TEMPLATES(key, branch, result) ==
    [template |-> key, branch |-> branch, result |-> result]

\* RESPONSE_TEMPLATES.shell_command.error(result, plan): the text of the
\* response.  The grave accents around the command are written as apostrophes.
shell_command_error(result, aPlan) ==
    "'" \o (IF Len(aPlan.steps) > 0 /\ TruthyField(aPlan.steps[1].args, "command")
            THEN aPlan.steps[1].args.command ELSE "command")
        \o "' failed (exit "
        \o (IF Has(result, "exitCode") THEN Decimal(result.exitCode) ELSE "undefined")
        \o "):\n"
        \o (IF TruthyField(result, "stderr") THEN result.stderr
            ELSE IF TruthyField(result, "error") THEN result.error
            ELSE "unknown error")

\* RESPONSE_TEMPLATES.http_request.error(result): the text of the response.
\* The dash between status and message is written as a hyphen.
http_request_error(result) ==
    "HTTP request failed: "
        \o (IF Has(result, "status") /\ result.status # 0 THEN Decimal(result.status) ELSE "error")
        \o " - "
        \o (IF TruthyField(result, "error") THEN result.error
            ELSE IF TruthyField(result, "statusText") THEN result.statusText
            ELSE "unknown")

\* this.metrics of a new orchestrator; byIntent[i] = 0 stands for no entry
NewMetrics ==
    [totalTasks |-> 0, deterministicTasks |-> 0, modelFallbacks |-> 0,
     modelCallsForPlanning |-> 0, modelCallsForResponse |-> 0, errors |-> 0,
     byIntent |-> [id \in {TASK_TYPES[tx].id : tx \in DOMAIN TASK_TYPES} \cup {"unknown"} |-> 0]]

\* _trackIntent that stores 1 instead of adding 1
_trackIntentSetsOne(m, intent) == [m EXCEPT !.byIntent[intent] = 1]

\* Track intent distribution for metrics
_trackIntent(m, intent) == [m EXCEPT !.byIntent[intent] = @ + 1]

\* Rate that cuts the digits after the first decimal off instead of rounding
RateTruncated(count, total) ==
    LET tenths == (1000 * count) \div total
    IN  Decimal(tenths \div 10) \o "." \o Decimal(tenths % 10) \o "%"

\* ((count / total) * 100).toFixed(1) + '%'
Rate(count, total) ==
    LET tenths == (2000 * count + total) \div (2 * total)
    IN  Decimal(tenths \div 10) \o "." \o Decimal(tenths % 10) \o "%"

\* The object this.metrics.byIntent, made once by the constructor: a value
\* that holds it holds the reference, not a copy of the counts.
byIntentObject == [ref |-> "this.metrics.byIntent"]

\* the contents a holder of the reference reads when this.metrics is m
Deref(object, m) == IF object = byIntentObject THEN m.byIntent ELSE object

\* Return current metrics snapshot.  The spread copies the counters; byIntent
\* stays the orchestrator's own object and is read through metrics.
_snapshot(m) ==
    LET total == IF m.totalTasks = 0 THEN 1 ELSE m.totalTasks
    IN  [totalTasks |-> m.totalTasks, deterministicTasks |-> m.deterministicTasks,
         byIntent |-> byIntentObject,
         modelFallbacks |-> m.modelFallbacks,
         modelCallsForPlanning |-> m.modelCallsForPlanning,
         modelCallsForResponse |-> m.modelCallsForResponse, errors |-> m.errors,
         deterministicRate |-> Rate(m.deterministicTasks, total),
         modelFallbackRate |-> Rate(m.modelFallbacks, total)]

\* response.match(/\{[\s\S]*\}/)?.[0] : from the first { to the last }
JsonObjectIn(str) ==
    LET braces == Cat(<<Lit("{"), Star(NCls({})), Lit("}")>>)
        open   == FirstStart(braces, str)
    IN  IF open = 0 THEN Undefined
        ELSE SubSeq(str, open, SetMax(Ends(braces, str, {open})) - 1)

\* The texts a model is taken to answer with, and JSON.parse of the object
\* texts among them: a parsed object, or the SyntaxError that parse throws.
PlanText  == "{\"steps\":[{\"tool\":\"run_command\",\"args\":{\"command\":\"npm test\"}}]}"
EmptyText == "{}"
BadText   == "{steps: run the tests}"

JSONparse(str) ==
    CASE str = PlanText  -> [ok |-> TRUE,
                             value |-> [steps |-> <<Step("run_command", [command |-> "npm test"])>>]]
      [] str = EmptyText -> [ok |-> TRUE, value |-> EmptyObject]
      [] OTHER           -> [ok |-> FALSE, value |-> Error("Unexpected token in JSON")]

(***************************************************************************)
(* 5. orchestrator.js : WorkflowOrchestrator                               *)
(*                                                                         *)
(* process() is cut at its awaits.  A frame holds the locals of the        *)
(* running call together with this.metrics; every operator below maps the  *)
(* frame at the beginning of a code segment to the frame at its end.       *)
(***************************************************************************)

VARIABLES
    model,                \* this.model is an adapter (TRUE) or null (FALSE)
    methods,              \* the names of the methods the adapter has
    snapshot,             \* the snapshot the last printMetrics() took
    confidenceThreshold,  \* this.confidenceThreshold
    metrics,              \* this.metrics
    pc,                   \* "idle", or the await the running process() stands at
    input,                \* the argument of the running (or last) process()
    state,                \* let state
    classification,       \* const classification
    plan,                 \* const plan (undefined while the planner has not run)
    modelPlan,            \* the plan argument of _executeModelPlan
    results,              \* const results
    trace,                \* const trace
    ret,                  \* how the promise of the last process() settled
    log,                  \* the calls this process() made to the executor and the adapter, in
                          \*   order, each with the way it settled
    entry,                \* this.metrics when the running (or last) process() was entered
    memo,                 \* classify and planFromIntent are pure: their values on the requests
    cinput,               \* classifier on its own: the input,
    cthreshold,           \*   the threshold,
    cscores,              \*   const scores of classify,
    cresult,              \*   the Classification returned,
    cplan,                \*   the plan of planFromIntent,
    cphase,               \*   and how far the run has come
    files,                \* the default executor: the content of each file,
    config,               \*   the configuration it is given,
    tstep,                \*   the last step it was given,
    tresult,              \*   the result it returned,
    tcalls,               \*   the number of steps it has executed,
    shell,                \*   and the command lines it has handed to execSync
    calls,                \* concurrent process() calls: the frame of each call,
    increments,           \*   the increments performed on each counter,
    interleaved,          \*   and whether a call has run while another was suspended
    agent,                \* the Agent: its config, status, result, iteration, totalToolCalls
                          \*   and messages,
    arun                  \*   and the frame of its run(): where it stands and what it returned

orchVars == <<model, methods, snapshot, confidenceThreshold, metrics, pc, input, state, classification, plan,
              modelPlan, results, trace, ret, log, entry, memo>>
clsVars  == <<cinput, cthreshold, cscores, cresult, cplan, cphase>>
toolVars == <<files, config, tstep, tresult, tcalls, shell>>
concVars == <<calls, increments, interleaved>>
agentVars == <<agent, arun>>
vars     == <<orchVars, clsVars, toolVars, concVars, agentVars>>

\* the awaits of process() and its helpers
AT_TOOL     == "process: await this.executeTool"
AT_LOOP     == "_modelFallback: await this.model.processAgentLoop"
AT_COMPLETE == "_modelAssistPlan: await this.model.complete"
AT_MTOOL    == "_executeModelPlan: await this.executeTool"

\* settlements of the promise process() returns
NotCalled       == [settled |-> "none"]
Pending         == [settled |-> "pending"]
Returned(value) == [settled |-> "resolved", value |-> value]
Rejected(err)   == [settled |-> "rejected", reason |-> err]

\* what an awaited call does: it resolves to a value, or it throws (rejects with) a value
Resolve(value) == [kind |-> "resolve", value |-> value]
Throw(value)   == [kind |-> "throw", value |-> value]

Frame ==
    [pc |-> pc, state |-> state, classification |-> classification, plan |-> plan,
     modelPlan |-> modelPlan, results |-> results, trace |-> trace, ret |-> ret,
     log |-> log, metrics |-> metrics]

\* make the call and stand at its await
Call(f, at, fn, step) ==
    [f EXCEPT !.log = Append(@, [fn |-> fn, step |-> step, outcome |-> Pending]), !.pc = at]

\* the awaited call settles
Settled(f, outcome) == [f EXCEPT !.log[Len(f.log)].outcome = outcome]

\* return value from process()
Return(f, value) == [f EXCEPT !.pc = "idle", !.ret = Returned(value)]

\* catch (err) { this.metrics.errors++; return {...} } of process().  Reading
\* err.message of a thrown undefined throws in the catch block itself, after
\* the increment, and the promise rejects.
catch(f, err) ==
    LET counted == [f.metrics EXCEPT !.errors = @ + 1]
    IN  IF err = UndefinedV
        THEN [f EXCEPT !.metrics = counted, !.pc = "idle", !.ret = Rejected(TypeError)]
        ELSE Return([f EXCEPT !.metrics = counted],
                    [response |-> [template |-> "error", state |-> f.state,
                                   message |-> Field(err, "message")],
                     metrics |-> _snapshot(counted), trace |-> f.trace,
                     deterministic |-> FALSE, error |-> Field(err, "message")])

\* results[results.length - 1]
Last(seq) == IF Len(seq) = 0 THEN UndefinedV ELSE seq[Len(seq)]

\* ResultOrRecord that hands on the step record, never the result in it
RecordOnly(lastResult) == lastResult

\* lastResult?.result || lastResult
ResultOrRecord(lastResult) ==
    IF Has(lastResult, "result") /\ Truthy(lastResult.result) THEN lastResult.result ELSE lastResult

\* VALIDATE and RESPOND of process(), after the loop
validateAndRespond(f) ==
    LET executed   == Append(f.trace, [state |-> STATES.EXECUTING, stepsExecuted |-> Len(f.results),
                                       successes |-> Cardinality({rx \in DOMAIN f.results :
                                                                    f.results[rx].success})])
        lastResult == Last(f.results)
        validation == VALIDATORS(ValidatorFor(f.classification.intent), ResultOrRecord(lastResult))
        validated  == Append(executed, [state |-> STATES.VALIDATING, valid |-> validation.valid,
                                        reason |-> Field(validation, "reason")])
        templates  == TemplateFor(f.classification.intent)
        response   == IF validation.valid
                      THEN RESPONSE_TEMPLATES(templates, "success", ResultOrRecord(lastResult))
                      ELSE RESPONSE_TEMPLATES(templates, "error", Merge(lastResult, validation))
        counted    == [f.metrics EXCEPT !.deterministicTasks = @ + 1]
    IN  Return([f EXCEPT !.state = STATES.RESPONDING, !.trace = validated, !.metrics = counted],
               [response |-> response, metrics |-> _snapshot(counted), trace |-> validated,
                deterministic |-> TRUE, classification |-> f.classification,
                results |-> f.results])

\* for (const step of plan.steps): the next step is handed to the executor,
\* or the loop is over
executeLoop(f) ==
    IF Len(f.results) < Len(f.plan.steps)
    THEN Call(f, AT_TOOL, "executeTool", f.plan.steps[Len(f.results) + 1])
    ELSE validateAndRespond(f)

\* results.push(...) of the try and of the catch around the executor call
StepRecord(step, outcome) ==
    IF outcome.kind = "resolve"
    THEN [tool |-> step.tool, args |-> step.args, result |-> outcome.value, success |-> TRUE]
    ELSE [tool |-> step.tool, args |-> step.args, error |-> Field(outcome.value, "message"),
          success |-> FALSE]

\* the awaited executor call of process() settles.  err.message of a thrown
\* undefined throws a TypeError out of the inner catch.
executeSettled(f, outcome) ==
    IF outcome.kind = "throw" /\ outcome.value = UndefinedV
    THEN catch(f, TypeError)
    ELSE executeLoop([f EXCEPT !.results =
                         Append(@, StepRecord(f.plan.steps[Len(f.results) + 1], outcome))])

\* Use template if available: the end of _executeModelPlan
modelRespond(f) ==
    LET executed   == [f EXCEPT !.trace = Append(@, [state |-> STATES.EXECUTING, modelAssisted |-> TRUE,
                                                     steps |-> Len(f.results)])]
        templates  == TemplateFor(f.classification.intent)
        lastResult == Last(f.results)
        succeeded  == Has(lastResult, "success") /\ lastResult.success
    IN  IF ~succeeded /\ TemplateThrows(templates, f.modelPlan)
        THEN catch(executed, TypeError)
        ELSE Return(executed,
                    [response |-> IF succeeded
                                  THEN RESPONSE_TEMPLATES(templates, "success", ResultOrRecord(lastResult))
                                  ELSE RESPONSE_TEMPLATES(templates, "error",
                                           IF Truthy(lastResult) THEN lastResult
                                           ELSE [type |-> "object", error |-> "no results"]),
                     metrics |-> _snapshot(f.metrics), trace |-> executed.trace,
                     deterministic |-> FALSE, modelUsedForPlanning |-> TRUE,
                     results |-> f.results])

\* plan.steps || []
StepsOf(aPlan) == IF Has(aPlan, "steps") THEN aPlan.steps ELSE <<>>

\* for (const step of (plan.steps || [])) of _executeModelPlan
modelLoop(f) ==
    IF Len(f.results) < Len(StepsOf(f.modelPlan))
    THEN Call(f, AT_MTOOL, "executeTool", StepsOf(f.modelPlan)[Len(f.results) + 1])
    ELSE modelRespond(f)

\* the awaited executor call of _executeModelPlan settles
modelExecuteSettled(f, outcome) ==
    IF outcome.kind = "throw" /\ outcome.value = UndefinedV
    THEN catch(f, TypeError)
    ELSE modelLoop([f EXCEPT !.results =
                       Append(@, StepRecord(StepsOf(f.modelPlan)[Len(f.results) + 1], outcome))])

\* _modelAssistPlan after its await: the plan it returns, or the exception
\* that leaves it.  A failure of the call, of response.match or of JSON.parse
\* goes to the catch, which logs err.message and falls through to
\* return partialPlan; err.message of a thrown undefined throws there.
_modelAssistPlan(partialPlan, outcome) ==
    IF outcome.kind = "throw"
    THEN IF outcome.value = UndefinedV THEN Throw(TypeError) ELSE Resolve(partialPlan)
    ELSE IF outcome.value.type # "string" THEN Resolve(partialPlan)
    ELSE IF JsonObjectIn(outcome.value.text) = Undefined THEN Resolve(partialPlan)
    ELSE IF JSONparse(JsonObjectIn(outcome.value.text)).ok
         THEN Resolve(JSONparse(JsonObjectIn(outcome.value.text)).value)
         ELSE Resolve(partialPlan)

\* completeSettled without the return of the model-assisted branch: the
\* deterministic loop runs after the adapter has been asked
completeSettledFallsThrough(f, outcome) ==
    executeLoop([f EXCEPT !.state = STATES.EXECUTING, !.results = <<>>])

\* the awaited complete() settles: the rest of _modelAssistPlan, the
\* model_plan_assist trace record and _executeModelPlan up to its first await
completeSettled(f, outcome) ==
    LET assisted == _modelAssistPlan(f.plan, outcome)
    IN  IF assisted.kind = "throw" THEN catch(f, assisted.value)
        ELSE modelLoop([f EXCEPT !.modelPlan = assisted.value,
                                 !.results = <<>>,
                                 !.trace = Append(@, [state |-> "model_plan_assist",
                                                      modelSteps |-> Len(StepsOf(assisted.value))])])

\* Full model fallback, up to its await
_modelFallback(f) ==
    LET counted == [f EXCEPT !.metrics.modelFallbacks = @ + 1]
    IN  IF ~model
        THEN Return(counted,
                    [response |-> [template |-> "no_model_for_fallback",
                                   confidence |-> f.classification.confidence],
                     metrics |-> _snapshot(counted.metrics), trace |-> f.trace,
                     deterministic |-> FALSE])
        ELSE IF "processAgentLoop" \notin methods
        THEN catch([counted EXCEPT !.trace = Append(@, [state |-> STATES.MODEL_FALLBACK,
                                                        reason |-> "classifier_no_match"])],
                   NotAFunction("this.model.processAgentLoop"))
        ELSE Call([counted EXCEPT !.trace = Append(@, [state |-> STATES.MODEL_FALLBACK,
                                                       reason |-> "classifier_no_match"])],
                  AT_LOOP, "processAgentLoop", EmptyObject)

\* the awaited processAgentLoop() settles; result.response of an undefined
\* result throws after the counter has been incremented
agentLoopSettled(f, outcome) ==
    LET counted == [f EXCEPT !.metrics.modelCallsForResponse = @ + 1]
    IN  IF outcome.kind = "throw" THEN catch(f, outcome.value)
        ELSE IF outcome.value = UndefinedV THEN catch(counted, TypeError)
        ELSE Return(counted,
                    [response |-> [template |-> "model",
                                   result |-> IF TruthyField(outcome.value, "response")
                                              THEN Text(outcome.value.response) ELSE outcome.value],
                     metrics |-> _snapshot(counted.metrics), trace |-> f.trace,
                     deterministic |-> FALSE, modelUsed |-> TRUE])

\* needsFallback with the reason of another branch of classify
needsFallbackWrongReason(cls) == cls.needsModel /\ cls.reason = "low_confidence"

\* if (classification.needsModel && classification.reason === 'no_pattern_match')
needsFallback(cls) == cls.needsModel /\ cls.reason = "no_pattern_match"

\* planningRoute without the return of the branch if (!this.model)
planningRouteWithoutModel(aPlan) ==
    IF aPlan.requiresModelForPlanning /\ model THEN "assist" ELSE "execute"

\* where process() goes once the plan is made
planningRoute(aPlan) ==
    IF aPlan.requiresModelForPlanning
    THEN IF ~model THEN "explain" ELSE "assist"
    ELSE "execute"

\* PLAN of process() and what follows, up to the first await
planAndExecute(f, aPlan) ==
    LET planned == [f EXCEPT !.state = STATES.PLANNING, !.plan = aPlan,
                             !.trace = Append(@, [state |-> STATES.PLANNING, steps |-> Len(aPlan.steps),
                                                  requiresModel |-> aPlan.requiresModelForPlanning])]
    IN  CASE planningRoute(aPlan) = "explain" ->
                Return(planned,
                       [response |-> [template |-> "no_model_for_planning",
                                      intent |-> f.classification.intent],
                        metrics |-> _snapshot(f.metrics), trace |-> planned.trace,
                        deterministic |-> FALSE])
          [] planningRoute(aPlan) = "assist" ->
                Call([planned EXCEPT !.metrics.modelCallsForPlanning = @ + 1],
                     AT_COMPLETE, "complete", EmptyObject)
          [] planningRoute(aPlan) = "execute" ->
                executeLoop([planned EXCEPT !.state = STATES.EXECUTING, !.results = <<>>])

(***************************************************************************)
(* 6. The default tool executor (tools.js)                                 *)
(***************************************************************************)

\* the files the executors can touch, relative to config.workingDirectory;
\* "" is the working directory itself
WorkingDirectory == ""
FilePaths == {"a.txt", "b.txt"}

\* a path that holds no file
Absent == "<absent>"

\* the part of DEFAULT_CONFIG the executors read
DEFAULT_CONFIG ==
    [sandboxMode |-> FALSE,
     blockedCommands |-> <<"rm -rf /", "mkfs", ":(){:|:&};:", "dd if=/dev/zero", "chmod -R 777 /">>,
     maxFileSize |-> 10 * 1024 * 1024]

\* resolvePath(p, config): a falsy path is the working directory
resolvePath(p) == IF p \in {"", Null, Undefined} THEN WorkingDirectory ELSE p

\* errors of the fs calls caught by executeTool
EISDIR == "EISDIR: illegal operation on a directory"

\* what an executor leaves behind: its result and the file system
Done(result, fs) == [result |-> result, files |-> fs]

\* executors.create_file
create_file(args, cfg, fs) ==
    LET fullPath == resolvePath(Field(args, "path"))
        content  == IF TruthyField(args, "content") THEN args.content ELSE ""
    IN  IF Len(content) > cfg.maxFileSize
        THEN Done([success |-> FALSE, error |-> "File exceeds max size"], fs)
        ELSE IF fullPath = WorkingDirectory
        THEN Done([success |-> FALSE, error |-> EISDIR], fs)
        ELSE Done([success |-> TRUE, path |-> fullPath, bytes |-> Len(content)],
                  [fs EXCEPT ![fullPath] = content])

\* content.split(sep).length - 1 for a separator that is no string (undefined
\* gives the whole string in one piece), the empty string (one piece per
\* character) or a string
RECURSIVE SplitCount(_, _)
SplitCount(content, sep) ==
    IF sep = Undefined THEN 0
    ELSE IF sep = "" THEN Len(content) - 1
    ELSE IF Len(content) < Len(sep) THEN 0
    ELSE IF SubSeq(content, 1, Len(sep)) = sep
         THEN 1 + SplitCount(SubSeq(content, Len(sep) + 1, Len(content)), sep)
         ELSE SplitCount(SubSeq(content, 2, Len(content)), sep)

\* content.replace(old, new) with strings: the first occurrence is replaced
RECURSIVE replace(_, _, _)
replace(content, old, new) ==
    IF Len(content) < Len(old) THEN content
    ELSE IF SubSeq(content, 1, Len(old)) = old
         THEN new \o SubSeq(content, Len(old) + 1, Len(content))
         ELSE SubSeq(content, 1, 1) \o replace(SubSeq(content, 2, Len(content)), old, new)

\* executors.edit_file
edit_file(args, cfg, fs) ==
    LET fullPath == resolvePath(Field(args, "path"))
    IN  IF fullPath = WorkingDirectory
        THEN Done([success |-> FALSE, error |-> EISDIR], fs)
        ELSE IF fs[fullPath] = Absent
        THEN Done([success |-> FALSE, error |-> "File not found"], fs)
        ELSE IF SplitCount(fs[fullPath], Field(args, "old_str")) = 0
        THEN Done([success |-> FALSE, error |-> "Search string not found in file"], fs)
        ELSE IF SplitCount(fs[fullPath], Field(args, "old_str")) > 1
        THEN Done([success |-> FALSE, error |-> "Search string found more than once"], fs)
        ELSE Done([success |-> TRUE, path |-> fullPath],
                  [fs EXCEPT ![fullPath] = replace(@, args.old_str, Field(args, "new_str"))])

\* the fragments checkSafety refuses in sandbox mode
destructive == <<"rm -rf", "rm -r", "rmdir", "mkfs", "dd ", "format", "fdisk">>

\* the entries of list that command contains
FoundIn(command, list) == {k \in DOMAIN list : includes(command, list[k])}

\* checkSafety(command, config): the message of the Error it throws for the
\* first fragment or entry the command contains, or null when it returns
checkSafety(command, cfg) ==
    IF cfg.sandboxMode /\ FoundIn(toLowerCase(command), destructive) # {}
    THEN "SANDBOX: Blocked destructive command containing \""
             \o destructive[SetMin(FoundIn(toLowerCase(command), destructive))] \o "\""
    ELSE IF FoundIn(command, cfg.blockedCommands) # {}
    THEN "SAFETY: Command blocked by policy: \""
             \o cfg.blockedCommands[SetMin(FoundIn(command, cfg.blockedCommands))] \o "\""
    ELSE Null

\* what an executor that runs a shell command leaves behind: its result and
\* the command lines it handed to execSync, or the Error it threw
Executed(result, commands) == [result |-> result, commands |-> commands]
Threw(message) == [threw |-> message]

\* executors.run_command; execSync throws for a status other than 0
run_command(args, cfg, sh) ==
    IF checkSafety(args.command, cfg) # Null THEN Threw(checkSafety(args.command, cfg))
    ELSE IF sh.status = 0
    THEN Executed([success |-> TRUE, stdout |-> sh.stdout, exitCode |-> 0], <<args.command>>)
    ELSE Executed([success |-> FALSE, stdout |-> sh.stdout, stderr |-> sh.stderr,
                   exitCode |-> sh.status, error |-> "Command failed: " \o args.command],
                  <<args.command>>)

\* executors.git
git(args, cfg, sh) ==
    IF sh.status = 0
    THEN Executed([success |-> TRUE, output |-> sh.stdout], <<"git " \o args.args>>)
    ELSE Executed([success |-> FALSE, output |-> sh.stdout,
                   error |-> IF sh.stderr # "" THEN sh.stderr
                             ELSE "Command failed: git " \o args.args],
                  <<"git " \o args.args>>)

\* input.pattern.replace(/"/g, '\\"')
RECURSIVE EscapeQuotes(_)
EscapeQuotes(str) ==
    IF str = "" THEN ""
    ELSE (IF SubSeq(str, 1, 1) = "\"" THEN "\\\"" ELSE SubSeq(str, 1, 1))
             \o EscapeQuotes(SubSeq(str, 2, Len(str)))

\* the command line of search_files
GrepCommand(args) ==
    "grep -rn \"" \o EscapeQuotes(args.pattern) \o "\" \"" \o resolvePath(Field(args, "path")) \o "\""
        \o (IF TruthyField(args, "file_glob") THEN " --include=\"" \o args.file_glob \o "\"" ELSE "")
        \o " 2>/dev/null | head -100"

\* executors.search_files
search_files(args, cfg, sh) ==
    IF sh.status = 0
    THEN Executed([success |-> TRUE, matches |-> trim(sh.stdout)], <<GrepCommand(args)>>)
    ELSE Executed([success |-> TRUE, matches |-> ""], <<GrepCommand(args)>>)

\* the executors that run a shell command
ShellTools == {"run_command", "git", "search_files"}

\* Execute a tool by name, for the executors that run a shell command: an
\* Error the executor throws becomes { success: false, error: err.message }
executeShellTool(name, args, cfg, sh) ==
    LET done == CASE name = "run_command"  -> run_command(args, cfg, sh)
                  [] name = "git"          -> git(args, cfg, sh)
                  [] name = "search_files" -> search_files(args, cfg, sh)
    IN  IF Has(done, "threw")
        THEN Executed([success |-> FALSE, error |-> done.threw], <<>>)
        ELSE done

\* Terminal signals: these execute nothing, the agent loop handles them
task_complete(args, fs) ==
    Done([success |-> TRUE, signal |-> "COMPLETE", summary |-> Field(args, "summary")], fs)

task_failed(args, fs) ==
    Done([success |-> TRUE, signal |-> "FAILED", reason |-> Field(args, "reason"),
          attempted |-> Field(args, "attempted")], fs)

\* Execute a tool by name; of the executors, those named here are modelled
executeTool(name, args, cfg, fs) ==
    CASE name = "create_file"   -> create_file(args, cfg, fs)
      [] name = "edit_file"     -> edit_file(args, cfg, fs)
      [] name = "task_complete" -> task_complete(args, fs)
      [] name = "task_failed"   -> task_failed(args, fs)
      [] OTHER                  -> Done([success |-> FALSE, error |-> "Unknown tool: " \o name], fs)

(***************************************************************************)
(* 6b. The agent loop: Agent.run                                           *)
(***************************************************************************)

\* the awaits of run() and _executeTools()
AT_CHAT == "run: await this.provider.chat"
AT_EXEC == "_executeTools: await executeTool"

\* constructor(config, provider)
NewAgent(cfg) ==
    [config |-> cfg, messages |-> <<>>, iteration |-> 0, totalToolCalls |-> 0,
     status |-> "idle", result |-> Null]

\* no run() has been called: the frame of run() holds the tool-use blocks
\* still to execute, the results of those executed, the number of calls made
\* to provider.chat, whether the catch block was entered, and how the promise
\* of run() settled
NotRunning ==
    [pc |-> "idle", blocks |-> <<>>, toolResults |-> <<>>, chats |-> 0, caught |-> FALSE,
     ret |-> NotCalled]

\* the fields of _buildResult() that do not depend on the clock or the provider
_buildResult(ag) ==
    [status |-> ag.status, summary |-> ag.result, iterations |-> ag.iteration,
     toolCalls |-> ag.totalToolCalls, messageCount |-> Len(ag.messages)]

\* return this._buildResult()
ReturnResult(f) == [f EXCEPT !.run.pc = "done", !.run.ret = Returned(_buildResult(f.agent))]

\* the result of a run that used up its iterations
ExceededMaxIterations(cfg) == "Exceeded max iterations (" \o Decimal(cfg.maxIterations) \o ")"

\* while (this.iteration < this.config.maxIterations) { this.iteration++;
\* await this.provider.chat(...) ... } and the statements after the loop
whileLoop(f) ==
    IF f.agent.iteration < f.agent.config.maxIterations
    THEN [f EXCEPT !.agent.iteration = @ + 1, !.run.pc = AT_CHAT, !.run.chats = @ + 1]
    ELSE ReturnResult([f EXCEPT !.agent.status = "error",
                                !.agent.result = ExceededMaxIterations(f.agent.config)])

\* catch (err) of run(): the status is set, then err.message is read, which
\* throws for a thrown undefined, and the promise of run() rejects
catchRun(f, err) ==
    IF err = UndefinedV
    THEN [f EXCEPT !.agent.status = "error", !.run.caught = TRUE, !.run.pc = "done",
                   !.run.ret = Rejected(TypeError)]
    ELSE ReturnResult([f EXCEPT !.agent.status = "error", !.agent.result = Field(err, "message"),
                                !.run.caught = TRUE])

\* run(brief) up to its first await or its return
run(f, brief) ==
    whileLoop([f EXCEPT !.agent.status = "running",
                        !.agent.messages = Append(@, [role |-> "user", content |-> "brief"]),
                        !.run = NotRunning])

\* _parseResponse(response).toolUseBlocks
toolUseBlocks(response) ==
    SelectSeq(IF Has(response, "content") THEN response.content ELSE <<>>,
              LAMBDA b : b.type = "tool_use")

\* the statements of run() after _executeTools has returned: the first
\* result that carries a signal ends the run, otherwise the results go to
\* the provider in the next iteration
afterTools(f) ==
    LET signals == {k \in DOMAIN f.run.toolResults :
                       f.run.toolResults[k].signal \in {"COMPLETE", "FAILED"}}
        pushed  == [f EXCEPT !.agent.messages = Append(@, [role |-> "user", content |-> "tool_result"])]
    IN  IF signals = {} THEN whileLoop(pushed)
        ELSE IF f.run.toolResults[SetMin(signals)].signal = "COMPLETE"
        THEN ReturnResult([f EXCEPT !.agent.status = "complete",
                                    !.agent.result = f.run.toolResults[SetMin(signals)].summary])
        ELSE ReturnResult([f EXCEPT !.agent.status = "failed",
                                    !.agent.result = f.run.toolResults[SetMin(signals)].reason])

\* the for loop of _executeTools up to its next await, or to its end
_executeTools(f) ==
    IF f.run.blocks = <<>> THEN afterTools(f)
    ELSE [f EXCEPT !.agent.totalToolCalls = @ + 1, !.run.pc = AT_EXEC]

\* const result = await executeTool(...) has settled: the tool result is
\* turned into tr, with its signal if it has one
toolSettled(f, done) ==
    _executeTools([f EXCEPT !.run.toolResults =
                               Append(@, [tool_use_id |-> Head(f.run.blocks).id,
                                          signal |-> Field(done.result, "signal"),
                                          summary |-> Field(done.result, "summary"),
                                          reason |-> Field(done.result, "reason")]),
                            !.run.blocks = Tail(@),
                            !.files = done.files])

\* await this.provider.chat(...) has settled
chatSettled(f, outcome) ==
    IF outcome.kind = "throw" THEN catchRun(f, outcome.value)
    ELSE IF outcome.value = UndefinedV THEN catchRun(f, TypeError)
    ELSE IF toolUseBlocks(outcome.value) = <<>> /\ Field(outcome.value, "stop_reason") = "end_turn"
    THEN whileLoop([f EXCEPT !.agent.messages =
                                 Append(Append(@, [role |-> "assistant", content |-> "content"]),
                                        [role |-> "user", content |-> "nudge"])])
    ELSE _executeTools([f EXCEPT !.agent.messages = Append(@, [role |-> "assistant", content |-> "content"]),
                                 !.run.blocks = toolUseBlocks(outcome.value),
                                 !.run.toolResults = <<>>])

(***************************************************************************)
(* 7. The inputs and the behaviours of the injected functions              *)
(***************************************************************************)

\* bounds of the model
MaxCalls == 2          \* process() calls made on one orchestrator
MaxWords == 2          \* phrases an input of the classifier is made of
MaxToolCalls == 2      \* steps given to the default executor
MaxConcurrent == 2     \* process() calls in flight on one orchestrator
MaxTasks == 6          \* process() calls counted by the metrics that are printed
MaxIterations == 3     \* config.maxIterations of an agent

\* options.confidenceThreshold || 0.4 : the default 0.4, and 0.6
Thresholds == {Num(8), Num(12)}

\* requests given to process()
Corpus ==
    {"hello", "git status", "dir a.txt", "npm test", "edit a.txt",
     "read file a.txt", "run the tests", "curl https://x.io"}

\* requests made concurrently: one answered by the fallback, one planned
\* and executed without a model, one that needs the model for its plan
ConcurrentCorpus == {"hello", "git status", "edit a.txt"}

\* how the awaited calls of concurrent requests settle: each resolves, or
\* throws an Error
ConcurrentOutcomes ==
    {Resolve([success |-> TRUE, stdout |-> "out", exitCode |-> 0]),
     Resolve(Text("I would run the tests.")),
     Resolve([response |-> "Hello!"]),
     Throw(Error("boom")),
     Throw(Error("model down"))}

\* the requests of a session whose metrics are printed: one goes to the
\* fallback, one runs a command
MetricsCorpus == {"hello", "git status"}

\* the adapters an orchestrator is given: the providers of providers.js, with
\* complete and processAgentLoop, and an adapter with complete and a
\* single-shot runGeneral
Adapters == {{"complete", "processAgentLoop"}, {"complete", "runGeneral"}}

\* what the executor can do with a step: resolve to undefined or to a result
\* object of tools.js, or throw an Error or undefined
ToolOutcomes ==
    {Resolve(UndefinedV),
     Resolve([success |-> TRUE, content |-> "text"]),
     Resolve([success |-> FALSE, error |-> "boom"]),
     Resolve([success |-> TRUE, stdout |-> "out", exitCode |-> 0]),
     Resolve([success |-> FALSE, stdout |-> "", stderr |-> "boom", exitCode |-> 1,
              error |-> "Command failed"]),
     Resolve([success |-> TRUE, status |-> 404, statusText |-> "Not Found"]),
     Throw(Error("boom")),
     Throw(UndefinedV)}

\* what complete() can do
CompleteOutcomes ==
    {Resolve(Text("I would run the tests.")),
     Resolve(Text("Here is the plan: " \o PlanText \o " Good luck.")),
     Resolve(Text(EmptyText)),
     Resolve(Text(BadText)),
     Resolve(UndefinedV),
     Throw(Error("model down")),
     Throw(UndefinedV)}

\* what processAgentLoop() can do
AgentLoopOutcomes ==
    {Resolve([response |-> "Hello!"]),
     Resolve([response |-> ""]),
     Resolve(Text("Hello!")),
     Resolve(UndefinedV),
     Throw(Error("model down")),
     Throw(UndefinedV)}

\* the steps the executor is given: the create_file and edit_file steps of
\* planFromIntent with their null placeholders, the same steps filled in, a
\* step without a path and a step of a tool that does not exist
ToolSteps ==
    {Step("create_file", [path |-> "a.txt", content |-> Null]),
     Step("create_file", [path |-> "a.txt", content |-> "ab"]),
     Step("create_file", [path |-> "b.txt", content |-> ""]),
     Step("create_file", [path |-> Null, content |-> "ab"]),
     Step("edit_file", [path |-> "a.txt", edits |-> Null]),
     Step("edit_file", [path |-> "a.txt", old_str |-> "a", new_str |-> "ba"]),
     Step("edit_file", [path |-> "b.txt", old_str |-> "", new_str |-> "a"]),
     Step("edit_file", [path |-> Null, old_str |-> "a", new_str |-> "b"]),
     Step("remove_file", [path |-> "a.txt"])}

\* a tool_use block of a response
ToolUse(id, name, args) == [type |-> "tool_use", id |-> id, name |-> name, input |-> args]

\* what provider.chat() can do: answer with text only, with tool calls, with
\* a terminal signal, alone or after another tool call, with nothing because
\* the answer was cut off, with no response at all, or throw
ChatOutcomes ==
    {Resolve([content |-> <<[type |-> "text", text |-> "I am done."]>>, stop_reason |-> "end_turn"]),
     Resolve([content |-> <<ToolUse("t1", "create_file", [path |-> "a.txt", content |-> "ab"])>>,
              stop_reason |-> "tool_use"]),
     Resolve([content |-> <<ToolUse("t1", "task_complete", [summary |-> "built"])>>,
              stop_reason |-> "tool_use"]),
     Resolve([content |-> <<ToolUse("t1", "task_failed", [reason |-> "impossible"])>>,
              stop_reason |-> "tool_use"]),
     Resolve([content |-> <<ToolUse("t1", "create_file", [path |-> "b.txt", content |-> ""]),
                            ToolUse("t2", "task_complete", [summary |-> "built"])>>,
              stop_reason |-> "tool_use"]),
     Resolve([content |-> <<>>, stop_reason |-> "max_tokens"]),
     Resolve(UndefinedV),
     Throw(Error("provider down")),
     Throw(UndefinedV)}

\* steps for the executors that run a shell command
ShellSteps ==
    {Step("run_command", [command |-> "ls"]),
     Step("run_command", [command |-> "sudo mkfs /dev/sda"]),
     Step("run_command", [command |-> "rm -r build"]),
     Step("git", [args |-> "status"]),
     Step("git", [args |-> "status; rm -rf /"]),
     Step("search_files", [pattern |-> "say \"hi\"", path |-> "a.txt"]),
     Step("search_files", [pattern |-> "$(rm -rf /)", path |-> Null])}

\* what execSync can do: return the output, or throw for a failed command
ShellOutcomes ==
    {[status |-> 0, stdout |-> "out ", stderr |-> ""],
     [status |-> 1, stdout |-> "", stderr |-> "boom"]}

\* AGENT_SANDBOX=true sets sandboxMode
ShellConfigs == {DEFAULT_CONFIG, [DEFAULT_CONFIG EXCEPT !.sandboxMode = TRUE]}

\* agent.config.json may lower maxFileSize
Configs == {DEFAULT_CONFIG, [DEFAULT_CONFIG EXCEPT !.maxFileSize = 1]}

\* the inputs of the classifier on its own: up to MaxWords phrases
Words ==
    {"git", "npm test", "status", "dir", "a.txt", "hello", "cat", "run", "edit a.txt",
     "the tests"}

\* requests that reach the arms of planFromIntent the phrases do not
Requests ==
    {"post to https://x.io", "fetch the api", "search for x in a.txt", "find x",
     "grep 'ab' in src", "create file a.txt", "create a new file", "test it",
     "deploy the app", "analyze the code", "npm install express", "pip install flask",
     "pip install npmx", "install it", "git pull npm install x", "read a.txt and b.txt",
     "git tag xnpm install y",
     "scaffold a new project", "curl https://x.io"}

Inputs == {Join(ws, " ") : ws \in UNION {[1..len -> Words] : len \in 0..MaxWords}} \cup Requests

(***************************************************************************)
(* 8. The state machines                                                   *)
(***************************************************************************)

\* Process a user input through the full deterministic pipeline: process()
\* up to its first await or its return
process(f, inp) ==
    LET cls     == memo[inp].classification
        entered == [f EXCEPT !.metrics = _trackIntent([f.metrics EXCEPT !.totalTasks = @ + 1],
                                                      cls.intent),
                             !.state = STATES.CLASSIFYING,
                             !.classification = cls,
                             !.plan = UndefinedV, !.modelPlan = UndefinedV, !.results = <<>>,
                             !.trace = <<[state |-> STATES.CLASSIFYING, intent |-> cls.intent,
                                          confidence |-> cls.confidence,
                                          needsModel |-> cls.needsModel, reason |-> cls.reason]>>,
                             !.ret = Pending, !.log = <<>>]
    IN  IF needsFallback(cls) THEN _modelFallback(entered)
        ELSE planAndExecute(entered, memo[inp].plan)

Become(f) ==
    /\ pc' = f.pc
    /\ state' = f.state
    /\ classification' = f.classification
    /\ plan' = f.plan
    /\ modelPlan' = f.modelPlan
    /\ results' = f.results
    /\ trace' = f.trace
    /\ ret' = f.ret
    /\ log' = f.log
    /\ metrics' = f.metrics

\* process(inp) is called and runs up to its first await or its return
Enter(inp) ==
    /\ input' = inp
    /\ entry' = metrics
    /\ Become(process(Frame, inp))
    /\ UNCHANGED <<model, methods, snapshot, confidenceThreshold, memo, clsVars, toolVars, concVars, agentVars>>

\* a caller calls process(inp); calls are made one after the other
Start(inp) ==
    /\ pc = "idle"
    /\ metrics.totalTasks < MaxCalls
    /\ Enter(inp)

ToolSettles(outcome) ==
    /\ pc = AT_TOOL
    /\ Become(executeSettled(Settled(Frame, outcome), outcome))
    /\ UNCHANGED <<model, methods, snapshot, confidenceThreshold, input, entry, memo, clsVars, toolVars, concVars, agentVars>>

CompleteSettles(outcome) ==
    /\ pc = AT_COMPLETE
    /\ Become(completeSettled(Settled(Frame, outcome), outcome))
    /\ UNCHANGED <<model, methods, snapshot, confidenceThreshold, input, entry, memo, clsVars, toolVars, concVars, agentVars>>

ModelToolSettles(outcome) ==
    /\ pc = AT_MTOOL
    /\ Become(modelExecuteSettled(Settled(Frame, outcome), outcome))
    /\ UNCHANGED <<model, methods, snapshot, confidenceThreshold, input, entry, memo, clsVars, toolVars, concVars, agentVars>>

AgentLoopSettles(outcome) ==
    /\ pc = AT_LOOP
    /\ Become(agentLoopSettled(Settled(Frame, outcome), outcome))
    /\ UNCHANGED <<model, methods, snapshot, confidenceThreshold, input, entry, memo, clsVars, toolVars, concVars, agentVars>>

\* new WorkflowOrchestrator(executeToolFn, modelProvider, options)
InitOrchestrator ==
    /\ metrics = NewMetrics
    /\ pc = "idle"
    /\ input = ""
    /\ state = STATES.INIT
    /\ classification = UndefinedV
    /\ plan = UndefinedV
    /\ modelPlan = UndefinedV
    /\ results = <<>>
    /\ trace = <<>>
    /\ ret = NotCalled
    /\ log = <<>>
    /\ entry = NewMetrics
    /\ snapshot = UndefinedV

InitClassifier ==
    /\ cscores = <<>>
    /\ cresult = UndefinedV
    /\ cplan = UndefinedV

\* the default executor before it is given a step: DEFAULT_CONFIG.maxFileSize and
\* an empty working directory
InitExecutor ==
    /\ files = [p \in FilePaths |-> Absent]
    /\ config = DEFAULT_CONFIG
    /\ tstep = UndefinedV
    /\ tresult = UndefinedV
    /\ tcalls = 0
    /\ shell = <<>>

\* no process() call has been made concurrently
InitCalls ==
    /\ calls = <<>>
    /\ increments = [k \in DOMAIN NewMetrics \ {"byIntent"} |-> 0]
    /\ interleaved = FALSE

\* an agent on which run() has not been called
InitAgent ==
    /\ agent = NewAgent([maxIterations |-> MaxIterations])
    /\ arun = NotRunning

\* classify(inp, this.confidenceThreshold) and planFromIntent(classification, inp)
Memo(threshold) ==
    [inp \in Corpus |-> [classification |-> classify(inp, threshold),
                         plan |-> planFromIntent(classify(inp, threshold), inp)]]

Init ==
    /\ model \in BOOLEAN
    /\ methods \in (IF model THEN Adapters ELSE {{}})
    /\ confidenceThreshold \in Thresholds
    /\ memo = Memo(confidenceThreshold)
    /\ InitOrchestrator
    /\ cinput = ""
    /\ cthreshold = Num(8)
    /\ cphase = "off"
    /\ InitClassifier
    /\ InitExecutor
    /\ InitCalls
    /\ InitAgent

Next ==
    \/ \E inp \in Corpus : Start(inp)
    \/ \E outcome \in ToolOutcomes : ToolSettles(outcome)
    \/ \E outcome \in CompleteOutcomes : CompleteSettles(outcome)
    \/ \E outcome \in ToolOutcomes : ModelToolSettles(outcome)
    \/ \E outcome \in AgentLoopOutcomes : AgentLoopSettles(outcome)

Spec == Init /\ [][Next]_vars

\* The classifier on its own: classify, then planFromIntent, of one input
Classify ==
    /\ cphase = "input"
    /\ cscores' = scoreTaskTypes(cinput)
    /\ cresult' = classify(cinput, cthreshold)
    /\ cphase' = "classified"
    /\ UNCHANGED <<cinput, cthreshold, cplan, orchVars, toolVars, concVars, agentVars>>

Plan ==
    /\ cphase = "classified"
    /\ cplan' = planFromIntent(cresult, cinput)
    /\ cphase' = "planned"
    /\ UNCHANGED <<cinput, cthreshold, cscores, cresult, orchVars, toolVars, concVars, agentVars>>

InitClassify ==
    /\ model = FALSE
    /\ methods = {}
    /\ confidenceThreshold = Num(8)
    /\ memo = <<>>
    /\ InitOrchestrator
    /\ cinput \in Inputs
    /\ cthreshold \in Thresholds
    /\ cphase = "input"
    /\ InitClassifier
    /\ InitExecutor
    /\ InitCalls
    /\ InitAgent

NextClassify == Classify \/ Plan

SpecClassify == InitClassify /\ [][NextClassify]_vars

\* The default executor on its own: executeTool(step.tool, step.args, config)
ExecuteTool(step) ==
    /\ tcalls < MaxToolCalls
    /\ tstep' = step
    /\ tresult' = executeTool(step.tool, step.args, config, files).result
    /\ files' = executeTool(step.tool, step.args, config, files).files
    /\ tcalls' = tcalls + 1
    /\ UNCHANGED <<config, shell, orchVars, clsVars, concVars, agentVars>>

InitTools ==
    /\ model = FALSE
    /\ methods = {}
    /\ confidenceThreshold = Num(8)
    /\ memo = <<>>
    /\ InitOrchestrator
    /\ cinput = ""
    /\ cthreshold = Num(8)
    /\ cphase = "off"
    /\ InitClassifier
    /\ files \in [FilePaths -> {Absent, "", "ab"}]
    /\ config \in Configs
    /\ tstep = UndefinedV
    /\ tresult = UndefinedV
    /\ tcalls = 0
    /\ shell = <<>>
    /\ InitCalls
    /\ InitAgent

NextTools == \E step \in ToolSteps : ExecuteTool(step)

SpecTools == InitTools /\ [][NextTools]_vars

\* Resume with the counters the call saw before its await: an increment that
\* writes back a value read before the suspension
ResumeStale(c) == calls[c]

\* Concurrent process() calls on one orchestrator.  A call runs from one
\* await to the next without giving up the thread; between two segments of a
\* call the segments of other calls can run.  this.metrics is shared: a
\* segment reads it when it runs.
Resume(c) == [calls[c] EXCEPT !.metrics = metrics]

\* the counters of this.metrics that are numbers
Counters ==
    {"totalTasks", "deterministicTasks", "modelFallbacks", "modelCallsForPlanning",
     "modelCallsForResponse", "errors"}

\* the segment that took the frame from before to after has run for call c
Ran(c, before, after) ==
    /\ metrics' = after.metrics
    /\ increments' = [k \in Counters |-> increments[k] + (after.metrics[k] - before.metrics[k])]
    /\ interleaved' = (interleaved \/ \E d \in DOMAIN calls : d # c /\ calls[d].pc # "idle")
    /\ UNCHANGED <<model, methods, snapshot, confidenceThreshold, pc, input, state, classification, plan,
                   modelPlan, results, trace, ret, log, entry, memo, clsVars, toolVars,
                   agentVars>>

\* a caller calls process(inp) while other calls may be suspended
StartConcurrent(inp) ==
    /\ Len(calls) < MaxConcurrent
    /\ calls' = Append(calls, process(Frame, inp))
    /\ Ran(Len(calls) + 1, Frame, process(Frame, inp))

ConcurrentToolSettles(c, outcome) ==
    /\ calls[c].pc = AT_TOOL
    /\ calls' = [calls EXCEPT ![c] = executeSettled(Settled(Resume(c), outcome), outcome)]
    /\ Ran(c, Resume(c), executeSettled(Settled(Resume(c), outcome), outcome))

ConcurrentCompleteSettles(c, outcome) ==
    /\ calls[c].pc = AT_COMPLETE
    /\ calls' = [calls EXCEPT ![c] = completeSettled(Settled(Resume(c), outcome), outcome)]
    /\ Ran(c, Resume(c), completeSettled(Settled(Resume(c), outcome), outcome))

ConcurrentModelToolSettles(c, outcome) ==
    /\ calls[c].pc = AT_MTOOL
    /\ calls' = [calls EXCEPT ![c] = modelExecuteSettled(Settled(Resume(c), outcome), outcome)]
    /\ Ran(c, Resume(c), modelExecuteSettled(Settled(Resume(c), outcome), outcome))

ConcurrentAgentLoopSettles(c, outcome) ==
    /\ calls[c].pc = AT_LOOP
    /\ calls' = [calls EXCEPT ![c] = agentLoopSettled(Settled(Resume(c), outcome), outcome)]
    /\ Ran(c, Resume(c), agentLoopSettled(Settled(Resume(c), outcome), outcome))

InitConcurrent ==
    /\ model \in BOOLEAN
    /\ methods \in (IF model THEN Adapters ELSE {{}})
    /\ confidenceThreshold = Num(8)
    /\ memo = Memo(confidenceThreshold)
    /\ InitOrchestrator
    /\ cinput = ""
    /\ cthreshold = Num(8)
    /\ cphase = "off"
    /\ InitClassifier
    /\ InitExecutor
    /\ InitCalls
    /\ InitAgent

NextConcurrent ==
    \/ \E inp \in ConcurrentCorpus : StartConcurrent(inp)
    \/ \E c \in DOMAIN calls, outcome \in ToolOutcomes \cap ConcurrentOutcomes :
           ConcurrentToolSettles(c, outcome)
    \/ \E c \in DOMAIN calls, outcome \in CompleteOutcomes \cap ConcurrentOutcomes :
           ConcurrentCompleteSettles(c, outcome)
    \/ \E c \in DOMAIN calls, outcome \in ToolOutcomes \cap ConcurrentOutcomes :
           ConcurrentModelToolSettles(c, outcome)
    \/ \E c \in DOMAIN calls, outcome \in AgentLoopOutcomes \cap ConcurrentOutcomes :
           ConcurrentAgentLoopSettles(c, outcome)

SpecConcurrent == InitConcurrent /\ [][NextConcurrent]_vars

\* Print metrics summary: printMetrics() takes a snapshot between two calls
printMetrics ==
    /\ pc = "idle"
    /\ snapshot' = _snapshot(metrics)
    /\ UNCHANGED <<model, methods, confidenceThreshold, metrics, pc, input, state, classification,
                   plan, modelPlan, results, trace, ret, log, entry, memo, clsVars, toolVars,
                   concVars, agentVars>>

\* a session of up to MaxTasks requests
StartTask(inp) ==
    /\ pc = "idle"
    /\ metrics.totalTasks < MaxTasks
    /\ Enter(inp)

InitMetrics ==
    /\ model = FALSE
    /\ methods = {}
    /\ confidenceThreshold = Num(8)
    /\ memo = Memo(confidenceThreshold)
    /\ InitOrchestrator
    /\ cinput = ""
    /\ cthreshold = Num(8)
    /\ cphase = "off"
    /\ InitClassifier
    /\ InitExecutor
    /\ InitCalls
    /\ InitAgent

NextMetrics ==
    \/ \E inp \in MetricsCorpus : StartTask(inp)
    \/ \E outcome \in ToolOutcomes \cap ConcurrentOutcomes : ToolSettles(outcome)
    \/ printMetrics

SpecMetrics == InitMetrics /\ [][NextMetrics]_vars

\* The executors that run a shell command, on their own:
\* executeTool(step.tool, step.args, config)
ExecuteShellTool(step, sh) ==
    /\ tcalls < MaxToolCalls
    /\ tstep' = step
    /\ tresult' = executeShellTool(step.tool, step.args, config, sh).result
    /\ shell' = shell \o executeShellTool(step.tool, step.args, config, sh).commands
    /\ tcalls' = tcalls + 1
    /\ UNCHANGED <<files, config, orchVars, clsVars, concVars, agentVars>>

InitShell ==
    /\ model = FALSE
    /\ methods = {}
    /\ confidenceThreshold = Num(8)
    /\ memo = <<>>
    /\ InitOrchestrator
    /\ cinput = ""
    /\ cthreshold = Num(8)
    /\ cphase = "off"
    /\ InitClassifier
    /\ files = [p \in FilePaths |-> Absent]
    /\ config \in ShellConfigs
    /\ tstep = UndefinedV
    /\ tresult = UndefinedV
    /\ tcalls = 0
    /\ shell = <<>>
    /\ InitCalls
    /\ InitAgent

NextShell == \E step \in ShellSteps, sh \in ShellOutcomes : ExecuteShellTool(step, sh)

SpecShell == InitShell /\ [][NextShell]_vars

\* The agent loop on its own: one run() of a fresh agent
AgentFrame == [agent |-> agent, run |-> arun, files |-> files]

AgentBecomes(f) ==
    /\ agent' = f.agent
    /\ arun' = f.run
    /\ files' = f.files
    /\ UNCHANGED <<config, tstep, tresult, tcalls, shell, orchVars, clsVars, concVars>>

\* a caller calls run(brief)
Run(brief) ==
    /\ arun.pc = "idle"
    /\ arun.ret = NotCalled
    /\ AgentBecomes(run(AgentFrame, brief))

\* provider.chat() settles
ChatSettles(outcome) ==
    /\ arun.pc = AT_CHAT
    /\ AgentBecomes(chatSettled(AgentFrame, outcome))

\* executeTool() of the next tool-use block settles
AgentToolSettles ==
    /\ arun.pc = AT_EXEC
    /\ AgentBecomes(toolSettled(AgentFrame,
                                executeTool(Head(arun.blocks).name, Head(arun.blocks).input,
                                            config, files)))

InitAgentRun ==
    /\ model = FALSE
    /\ methods = {}
    /\ confidenceThreshold = Num(8)
    /\ memo = <<>>
    /\ InitOrchestrator
    /\ cinput = ""
    /\ cthreshold = Num(8)
    /\ cphase = "off"
    /\ InitClassifier
    /\ InitExecutor
    /\ InitCalls
    /\ agent \in {NewAgent([maxIterations |-> n]) : n \in 0..MaxIterations}
    /\ arun = NotRunning

NextAgent ==
    \/ \E brief \in {"build it"} : Run(brief)
    \/ \E outcome \in ChatOutcomes : ChatSettles(outcome)
    \/ AgentToolSettles

SpecAgent == InitAgentRun /\ [][NextAgent]_vars

(***************************************************************************)
(* 9. Properties                                                           *)
(***************************************************************************)

\* the running or the last process() call has been made
Called == ret # NotCalled

\* the last process() call has settled
Completed == pc = "idle" /\ Called

\* the counter of this.metrics has grown by n during the call
Grew(counter, n) == metrics[counter] = entry[counter] + n

\* the calls of the log made to fn
CallsTo(fn) == SelectSeq(log, LAMBDA call : call.fn = fn)

\* C1: process() never throws or rejects: whatever the executor and the
\* adapter do, the promise it returns resolves to an object that carries
\* response, metrics, trace and deterministic.
C1_NeverRejects ==
    Completed =>
        /\ ret.settled = "resolved"
        /\ {"response", "metrics", "trace", "deterministic"} \subseteq DOMAIN ret.value

\* C2: each completed process() call increments exactly one of
\* deterministicTasks, modelFallbacks and errors, by one, and leaves the other
\* two alone; so the three add up to totalTasks, the number of calls.
C2_OneCounterPerCall ==
    Completed =>
        /\ \E counter \in {"deterministicTasks", "modelFallbacks", "errors"} :
              /\ Grew(counter, 1)
              /\ \A other \in {"deterministicTasks", "modelFallbacks", "errors"} \ {counter} :
                    Grew(other, 0)
        /\ metrics.deterministicTasks + metrics.modelFallbacks + metrics.errors = metrics.totalTasks

\* C3: process() returns deterministic = true, and counts the call in
\* deterministicTasks, only for a request classified with needsModel = false.
C3_DeterministicOnlyWithoutModelNeed ==
    /\ Completed
    /\ \/ ret.settled = "resolved" /\ ret.value.deterministic
       \/ Grew("deterministicTasks", 1)
    => ~classification.needsModel

Reasons == {"no_pattern_match", "deterministic_match", "ambiguous_top_scores", "low_confidence"}

\* C4: the Classification classify returns has one of the four reasons, and
\* needsModel = false only with reason deterministic_match and a confidence
\* at or above the threshold.
C4_ClassificationInvariant ==
    cphase # "input" =>
        /\ cresult.reason \in Reasons
        /\ ~cresult.needsModel =>
              /\ cresult.reason = "deterministic_match"
              /\ ~NumLt(cresult.confidence, cthreshold)

\* a deterministic classification has been returned, with scores below it
C4_Witness ==
    /\ cphase = "classified"
    /\ ~cresult.needsModel
    /\ Len(cscores) > 1

\* C5: classify follows the decision rule on the ranked candidates: none gives
\* unknown, 0, no_pattern_match; a top score below the threshold gives
\* low_confidence with the top's intent; otherwise ambiguous_top_scores exactly
\* when there is a second candidate and the lead of the top over it is
\* strictly less than 0.1, and deterministic_match if not.  The scores are
\* sums of the decimal literals; .m is such a sum in twentieths, so a lead of
\* 0.1 (0.5 against 0.4) is a difference of 2.
C5_DecisionRule ==
    cphase # "input" =>
        IF Len(cscores) = 0
        THEN /\ cresult.intent = "unknown"
             /\ cresult.confidence = Zero
             /\ cresult.needsModel
             /\ cresult.reason = "no_pattern_match"
        ELSE IF cscores[1].confidence.m < cthreshold.m
        THEN /\ cresult.needsModel
             /\ cresult.reason = "low_confidence"
             /\ cresult.intent = cscores[1].taskType
        ELSE IF Len(cscores) > 1 /\ cscores[1].confidence.m - cscores[2].confidence.m < 2
        THEN cresult.needsModel /\ cresult.reason = "ambiguous_top_scores"
        ELSE ~cresult.needsModel /\ cresult.reason = "deterministic_match"

\* the steps the executing loop of the call runs over: those of the plan on
\* the deterministic path, those of the plan _executeModelPlan was given
ExecutedSteps ==
    IF ~Truthy(plan) THEN <<>>
    ELSE IF ~plan.requiresModelForPlanning THEN plan.steps
    ELSE IF Truthy(modelPlan) /\ Has(modelPlan, "steps") THEN modelPlan.steps
    ELSE <<>>

\* the record the loop keeps of a step that settled with outcome
RecordsStep(record, step, outcome) ==
    /\ record.tool = step.tool
    /\ record.args = step.args
    /\ IF outcome.kind = "throw"
       THEN ~record.success /\ Has(record, "error")
       ELSE record.success /\ record.result = outcome.value

\* C6: the steps of the plan go to the executor one at a time, in plan order
\* and each once; a step that throws or rejects is recorded as a failure and
\* the loop goes on; in the end results holds one entry per step, in order.
C6_StepsInOrderOnce ==
    Called =>
        /\ Len(CallsTo("executeTool")) <= Len(ExecutedSteps)
        /\ \A ix \in DOMAIN CallsTo("executeTool") :
              /\ CallsTo("executeTool")[ix].step = ExecutedSteps[ix]
              /\ CallsTo("executeTool")[ix].outcome = Pending => ix = Len(CallsTo("executeTool"))
              /\ CallsTo("executeTool")[ix].outcome # Pending =>
                    /\ ix <= Len(results)
                    /\ RecordsStep(results[ix], ExecutedSteps[ix], CallsTo("executeTool")[ix].outcome)
        /\ Len(results) <= Len(CallsTo("executeTool"))
        /\ pc = "idle" => Len(results) = Len(ExecutedSteps)

\* C7: a request classified no_pattern_match goes straight to the model
\* fallback: no plan is made and the executor is never called; without an
\* adapter the call returns an explanatory response with deterministic = false
\* and no model is called.
C7_NoMatchGoesToFallback ==
    Called /\ classification.reason = "no_pattern_match" =>
        /\ plan = UndefinedV
        /\ \A ix \in DOMAIN log : log[ix].fn = "processAgentLoop"
        /\ ~model =>
              /\ log = <<>>
              /\ pc = "idle"
              /\ ret.settled = "resolved"
              /\ ~ret.value.deterministic
              /\ ret.value.response.template = "no_model_for_fallback"

\* an unmatched request on an orchestrator without adapter has been answered
C7_Witness ==
    /\ Completed
    /\ classification.reason = "no_pattern_match"
    /\ ~model
    /\ ret.value.response.template = "no_model_for_fallback"

\* C8: a plan that requires the model for planning, on an orchestrator without
\* adapter: no step is executed, also none of those the planner has emitted,
\* and the call returns an explanatory response with deterministic = false.
C8_NoModelNoExecution ==
    Called /\ Truthy(plan) /\ plan.requiresModelForPlanning /\ ~model =>
        /\ log = <<>>
        /\ results = <<>>
        /\ pc = "idle"
        /\ ret.settled = "resolved"
        /\ ~ret.value.deterministic
        /\ ret.value.response.template = "no_model_for_planning"

\* the planner has emitted steps and none was executed for want of an adapter
C8_Witness ==
    /\ Completed
    /\ Truthy(plan)
    /\ plan.requiresModelForPlanning
    /\ Len(plan.steps) > 0
    /\ ~model
    /\ ret.value.response.template = "no_model_for_planning"

\* complete() threw or rejected, or what it returned holds no JSON object
\* that parses
AssistFailed(outcome) ==
    \/ outcome.kind = "throw"
    \/ outcome.value.type # "string"
    \/ /\ outcome.value.type = "string"
       /\ \A from \in 1..Len(outcome.value.text), to \in 1..Len(outcome.value.text) :
             SubSeq(outcome.value.text, from, to) \notin {PlanText, EmptyText}

\* C9: a plan that requires the model for planning, on an orchestrator with an
\* adapter: complete() is called exactly once and before any executor call;
\* when it throws or rejects, or its text holds no parsable JSON object, the
\* plan then executed is the planner's partial plan, and the call does not
\* end in the error outcome on that account (errors is unchanged when the
\* executing loop is entered).
C9_AssistOnceThenPartialPlan ==
    Called /\ Truthy(plan) /\ plan.requiresModelForPlanning /\ model =>
        /\ Len(log) >= 1
        /\ log[1].fn = "complete"
        /\ \A ix \in 2..Len(log) : log[ix].fn = "executeTool"
        /\ (log[1].outcome # Pending /\ AssistFailed(log[1].outcome)) =>
              /\ modelPlan = plan
              /\ \A ix \in 2..Len(log) : log[ix].step = plan.steps[ix - 1]
              /\ Len(log) = 1 => Grew("errors", 0)

\* the result of the last step: what the executor resolved to, or the record
\* of the failure when it threw
LastStepResult ==
    IF Has(Last(results), "result") THEN Last(results).result ELSE Last(results)

\* C10: on the deterministic path the validator of the intent (the default
\* one when the intent has none) is applied to the result of the last step,
\* and the response is the intent's success template if and only if that
\* validation is valid, its error template otherwise.
C10_TemplateFollowsValidation ==
    Completed /\ ret.settled = "resolved" /\ ret.value.deterministic =>
        /\ ret.value.response.template = TemplateFor(classification.intent)
        /\ ret.value.response.branch =
              IF VALIDATORS(ValidatorFor(classification.intent), LastStepResult).valid
              THEN "success" ELSE "error"

\* C11: whenever process() returns deterministic=true, no method of the model
\* adapter was called during that call, even when an adapter is configured:
\* the only calls made are executor calls, and modelCallsForPlanning and
\* modelCallsForResponse are what they were when the call began.
C11_DeterministicCallsNoAdapter ==
    (Completed /\ ret.settled = "resolved" /\ ret.value.deterministic) =>
        /\ \A k \in DOMAIN log : log[k].fn = "executeTool"
        /\ Grew("modelCallsForPlanning", 0)
        /\ Grew("modelCallsForResponse", 0)

\* a deterministic call that ran a step on an orchestrator that has an adapter
C11_Witness ==
    /\ Completed /\ ret.settled = "resolved" /\ ret.value.deterministic
    /\ model
    /\ Len(log) > 0

\* the pipeline state in which the exception of an error outcome was raised:
\* executing while a model-assisted plan runs, model_fallback when the adapter
\* threw during full fallback, planning when it threw while assisting the plan
RaisedIn ==
    IF \E k \in DOMAIN trace : trace[k].state = "model_plan_assist" THEN {STATES.EXECUTING}
    ELSE IF Len(log) > 0 /\ Last(log).fn = "processAgentLoop" THEN {STATES.MODEL_FALLBACK}
    ELSE IF Len(log) > 0 /\ Last(log).fn = "complete" THEN {STATES.PLANNING}
    ELSE {STATES.EXECUTING, STATES.VALIDATING, STATES.RESPONDING}

\* C12: when an exception escapes a stage, process() returns the response
\* "Error in <state>: <message>" with deterministic=false and errors
\* incremented by 1, where <state> is the pipeline state in which the
\* exception was raised: model_fallback when the adapter throws during full
\* fallback, executing when it is raised while a model-assisted plan runs.
C12_ErrorNamesTheStage ==
    (Completed /\ Grew("errors", 1)) =>
        /\ ret.settled = "resolved"
        /\ ret.value.response.template = "error"
        /\ ~ret.value.deterministic
        /\ ret.value.response.state \in RaisedIn

\* the stage names of the trace records, in the order they were pushed
TraceStates == [k \in DOMAIN trace |-> trace[k].state]

\* C13: the trace a call returns holds exactly one record for each stage the
\* call reached, in the order the stages were reached: a deterministic call
\* records classifying, planning, executing, validating and responding, and
\* a call that entered model fallback has a model_fallback record.
C13_OneRecordPerStage ==
    (Completed /\ ret.settled = "resolved") =>
        /\ \A j, k \in DOMAIN trace : j # k => TraceStates[j] # TraceStates[k]
        /\ ret.value.deterministic =>
               TraceStates = <<STATES.CLASSIFYING, STATES.PLANNING, STATES.EXECUTING,
                               STATES.VALIDATING, STATES.RESPONDING>>
        /\ Grew("modelFallbacks", 1) =>
               \E k \in DOMAIN trace : TraceStates[k] = STATES.MODEL_FALLBACK

\* the intents byIntent can count: the task types and 'unknown'
CountedIntents == DOMAIN NewMetrics.byIntent

RECURSIVE SumOver(_, _)
\* the sum of counts[i] over the intents of S
SumOver(counts, S) ==
    IF S = {} THEN 0
    ELSE LET i == CHOOSE x \in S : TRUE IN counts[i] + SumOver(counts, S \ {i})

\* C14: byIntent[i] is the number of process() calls classified as intent i,
\* 'unknown' included, whatever the outcome of the call: a call adds one to
\* the count of its own intent and to no other, and the counts of all the
\* intents add up to totalTasks.
C14_ByIntentCountsCalls ==
    Called =>
        /\ \A i \in CountedIntents :
               metrics.byIntent[i] = entry.byIntent[i] + (IF i = classification.intent THEN 1 ELSE 0)
        /\ SumOver(metrics.byIntent, CountedIntents) = metrics.totalTasks

\* a second call of the same intent has ended in the error outcome
C14_Witness ==
    /\ Completed /\ Grew("errors", 1)
    /\ metrics.totalTasks = 2
    /\ metrics.byIntent[classification.intent] = 2

\* a required argument of the step is still the planner's null placeholder
UnresolvedNull(step) ==
    \/ step.tool = "create_file" /\ Field(step.args, "content") = Null
    \/ step.tool = "edit_file" /\ Field(step.args, "edits") = Null

\* C15: the default executor rejects a step that still carries an unresolved
\* null required argument: executing the planner's create_file step with
\* content=null, or its edit_file step with edits=null, yields a failure
\* result and changes no file.
C15_NullArgumentRejected ==
    [][(tcalls' = tcalls + 1 /\ UnresolvedNull(tstep')) =>
           (~tresult'.success /\ files' = files)]_vars

\* the plan has the one step run_command(command)
RunsCommand(command) == cplan.steps = <<Step("run_command", [command |-> command])>>

\* C16: planFromIntent equals the decision table for every intent and every
\* combination of extracted entities.  file_read with a path gives the single
\* step read_file(first path), without one list_directory('.') and a model
\* is required; file_write and file_edit always require a model;
\* shell_command gives the one run_command step of the first git operation
\* if there is one, otherwise of the install command (npm if "npm" occurs in
\* the text, else pip), and requires a model exactly when neither was
\* extracted; http_request, search and testing require a model exactly when
\* there is no URL, no parsable search phrase, no "run ... test(s)" phrasing;
\* every other intent requires a model and has no steps.
C16_PlanFollowsDecisionTable ==
    cphase = "planned" =>
        LET intent  == cresult.intent
            found   == cresult.entities
            needs   == cplan.requiresModelForPlanning
            install == (IF includes(toLowerCase(cinput), "npm") THEN "npm" ELSE "pip")
                           \o " install " \o Join(found.packages, " ")
        IN  /\ cplan.intent = intent
            /\ CASE intent = "file_read" ->
                      IF Len(found.filePaths) > 0
                      THEN cplan.steps = <<Step("read_file", [path |-> found.filePaths[1]])>> /\ ~needs
                      ELSE cplan.steps = <<Step("list_directory", [path |-> "."])>> /\ needs
                 [] intent \in {"file_write", "file_edit"} -> needs
                 [] intent = "shell_command" ->
                      /\ needs <=> (Len(found.gitOps) = 0 /\ Len(found.packages) = 0)
                      /\ Len(found.gitOps) > 0 =>
                             RunsCommand("git " \o found.gitOps[1].operation
                                            \o (IF found.gitOps[1].args # ""
                                                THEN " " \o found.gitOps[1].args ELSE ""))
                      /\ (Len(found.gitOps) = 0 /\ Len(found.packages) > 0) => RunsCommand(install)
                 [] intent = "http_request" -> needs <=> Len(found.urls) = 0
                 [] intent = "search" -> needs <=> SearchMatch(cinput) = <<>>
                 [] intent = "testing" ->
                      needs <=> ~test(Cat(<<Word("run"), DotStar, WB, LitOpt("test", "s"), WB>>), cinput)
                 [] OTHER -> needs /\ cplan.steps = <<>>

\* the arms of the table that were planned
PlannedAs(intent, needsModel) ==
    /\ cphase = "planned"
    /\ cresult.intent = intent
    /\ cplan.requiresModelForPlanning = needsModel

\* a file_read plan for a text with two paths
C16_Witness ==
    /\ PlannedAs("file_read", FALSE)
    /\ Len(cresult.entities.filePaths) > 1
    /\ cresult.entities.filePaths[1] # cresult.entities.filePaths[2]

\* C17: when classification fails with reason no_pattern_match and the model
\* adapter exposes complete and the single-shot runGeneral entry point,
\* process() calls that entry point exactly once with the raw input, calls
\* no tool, and returns that call's response text with deterministic=false,
\* having incremented modelFallbacks by 1.
C17_FallbackDelegatesOnce ==
    (/\ Completed
     /\ methods = {"complete", "runGeneral"}
     /\ classification.needsModel /\ classification.reason = "no_pattern_match") =>
        /\ Len(log) = 1
        /\ log[1].fn = "runGeneral"
        /\ Grew("modelFallbacks", 1)
        /\ (log[1].outcome.kind = "resolve" /\ Has(log[1].outcome.value, "response")) =>
               /\ ret.settled = "resolved"
               /\ ret.value.response = [template |-> "model",
                                        result |-> Text(log[1].outcome.value.response)]
               /\ ~ret.value.deterministic

\* what the executor returned for the last step it was given
LastToolResult == Last(log).outcome.value

\* the last step of a deterministic shell_command call ended with an exit
\* code other than 0
ShellStepFailed ==
    /\ Completed /\ ret.settled = "resolved" /\ ret.value.deterministic
    /\ ValidatorFor(classification.intent) = "shell_command"
    /\ Len(log) > 0
    /\ Last(log).outcome.kind = "resolve"
    /\ Has(LastToolResult, "exitCode")
    /\ LastToolResult.exitCode # 0

\* C18: under the shell_command validator a last result with exit code
\* N # 0, such as {exitCode: 1, stderr: "boom"}, yields {valid: false,
\* reason: "exit_code_N"}, and the text of the response includes the stderr
\* text.
C18_ExitCodeFailsValidation ==
    ShellStepFailed =>
        /\ Last(trace) = [state |-> STATES.VALIDATING, valid |-> FALSE,
                          reason |-> "exit_code_" \o Decimal(LastToolResult.exitCode)]
        /\ ret.value.response.template = "shell_command"
        /\ ret.value.response.branch = "error"
        /\ includes(shell_command_error(ret.value.response.result, plan),
                    LastToolResult.stderr)

\* `git status` has ended with exit code 1 and "boom" on stderr
C18_Witness ==
    /\ ShellStepFailed
    /\ LastToolResult.exitCode = 1
    /\ LastToolResult.stderr = "boom"
    /\ includes(shell_command_error(ret.value.response.result, plan), "(exit undefined):\nboom")

\* every concurrent call that was made has settled, and there were MaxConcurrent
AllCompleted ==
    /\ Len(calls) = MaxConcurrent
    /\ \A c \in DOMAIN calls : calls[c].pc = "idle"

\* a counter is lower than the number of increments performed on it
IncrementLost == \E k \in Counters : metrics[k] < increments[k]

\* C19: concurrent process() invocations on one orchestrator are not safe
\* for the metrics: counter increments are not atomic, so two process()
\* calls interleaved at their awaits on the executor or the model adapter
\* leave a counter lower than the number of increments performed on it,
\* e.g. totalTasks < 2 after both calls complete.
C19_InterleavingLosesIncrement ==
    (AllCompleted /\ interleaved) => (IncrementLost \/ metrics.totalTasks < Len(calls))

\* C19 as amended: every increment of a counter is made within one segment
\* of a call, between two awaits, so in every interleaving of concurrent
\* process() calls each counter equals the number of increments performed
\* on it, and totalTasks is the number of calls made.
C19_NoIncrementIsLost ==
    /\ \A k \in Counters : metrics[k] = increments[k]
    /\ metrics.totalTasks = Len(calls)

\* two calls have completed, each after a segment of the other had run
\* while it stood at an await
C19_Witness ==
    /\ AllCompleted
    /\ interleaved
    /\ \A c \in DOMAIN calls : Len(calls[c].log) > 0
    /\ metrics.totalTasks = 2
    /\ metrics.deterministicTasks + metrics.errors > 0

\* the snapshots a caller holds: the one process() returned last and the one
\* printMetrics() took last
Snapshots ==
    (IF ret.settled = "resolved" THEN {ret.value.metrics} ELSE {})
        \cup (IF snapshot # UndefinedV THEN {snapshot} ELSE {})

\* count / total * 100 with one decimal and a trailing '%': the number of
\* tenths nearest to the quotient, the larger one of two that are as near
OneDecimal(count, total) ==
    LET tenths == CHOOSE t \in 0..1000 :
                      /\ 2 * (t * total - 1000 * count) <= total
                      /\ 2 * ((t + 1) * total - 1000 * count) > total
    IN  Decimal(tenths \div 10) \o "." \o Decimal(tenths % 10) \o "%"

\* C20: in every MetricsSnapshot deterministicRate and modelFallbackRate equal
\* the respective counter divided by max(totalTasks, 1), times 100, rendered
\* with one decimal and a trailing '%'; after any N >= 1 calls the rates
\* match recomputation from the snapshot's own counters, and a snapshot
\* taken with totalTasks = 0 gives "0.0%" for both rates.
C20_RatesMatchCounters ==
    \A s \in Snapshots :
        /\ s.deterministicRate =
               OneDecimal(s.deterministicTasks, IF s.totalTasks > 1 THEN s.totalTasks ELSE 1)
        /\ s.modelFallbackRate =
               OneDecimal(s.modelFallbacks, IF s.totalTasks > 1 THEN s.totalTasks ELSE 1)
        /\ s.totalTasks = 0 => s.deterministicRate = "0.0%" /\ s.modelFallbackRate = "0.0%"

\* a snapshot of an orchestrator that has processed nothing, and one
\* returned after three calls of which two were deterministic
C20_Witness ==
    /\ snapshot # UndefinedV
    /\ snapshot.totalTasks = 0
    /\ ret.settled = "resolved"
    /\ ret.value.metrics.totalTasks = 3
    /\ ret.value.metrics.deterministicRate = "66.7%"
    /\ ret.value.metrics.modelFallbackRate = "33.3%"

\* the call has executed plan steps and answered with a template of its intent
AnsweredAfterSteps ==
    /\ Completed /\ ret.settled = "resolved"
    /\ Len(CallsTo("executeTool")) > 0
    /\ Has(ret.value.response, "branch")

\* C21: every process() call that executes plan steps, a model-assisted
\* (possibly model-revised) plan included, passes through VALIDATING before
\* RESPONDING: the trace has a validating record, and the success template
\* is chosen exactly when the intent's validator accepts the last step's
\* result, not by any other flag.
C21_ValidatedBeforeResponding ==
    AnsweredAfterSteps =>
        /\ \E k \in DOMAIN trace : trace[k].state = STATES.VALIDATING
        /\ (ret.value.response.branch = "success") <=>
               VALIDATORS(ValidatorFor(classification.intent),
                          ResultOrRecord(Last(results))).valid

\* the executor returned, as a value, a result with success = false for the
\* last step it was given
LastStepFailed ==
    /\ Len(log) > 0
    /\ Last(log).fn = "executeTool"
    /\ Last(log).outcome.kind = "resolve"
    /\ Has(LastToolResult, "success")
    /\ ~LastToolResult.success

\* C22: a failed last step is never reported as a success: if the tool
\* result of the last executed step has success = false, returned as a value
\* by the executor rather than thrown, process() does not answer with the
\* intent's success template, on the deterministic path and on the
\* model-assisted path alike.
C22_FailedStepNotSuccess ==
    (Completed /\ ret.settled = "resolved" /\ LastStepFailed /\ Has(ret.value.response, "branch")) =>
        ret.value.response.branch # "success"

\* the last step of a deterministic http_request call ended with a status
\* of 400 or more
HttpStepFailed ==
    /\ Completed /\ ret.settled = "resolved" /\ ret.value.deterministic
    /\ ValidatorFor(classification.intent) = "http_request"
    /\ Len(log) > 0
    /\ Last(log).outcome.kind = "resolve"
    /\ Has(LastToolResult, "status")
    /\ LastToolResult.status >= 400

\* C23: on the error path the error template is given the last step's tool
\* result merged with the validation diagnostics, so the fields of the tool
\* result (exitCode, status, error, stderr) are visible to the template: for
\* a shell_command whose last result has exit code N the response names
\* exit code N, and for an http_request whose last result has status
\* S >= 400 the response names S.
C23_ErrorTemplateSeesToolResult ==
    /\ ShellStepFailed =>
           /\ ret.value.response.branch = "error"
           /\ Has(ret.value.response.result, "exitCode")
           /\ includes(shell_command_error(ret.value.response.result, plan),
                       "(exit " \o Decimal(LastToolResult.exitCode) \o ")")
    /\ HttpStepFailed =>
           /\ ret.value.response.branch = "error"
           /\ Has(ret.value.response.result, "status")
           /\ includes(http_request_error(ret.value.response.result),
                       "failed: " \o Decimal(LastToolResult.status))

\* call c of the concurrent calls has returned
HasReturned(c) == calls[c].pc = "idle" /\ calls[c].ret.settled = "resolved"

\* what the caller reads from the snapshot call c returned when this.metrics
\* is m: the counters copied into the snapshot and the contents of byIntent
ReadSnapshot(c, m) ==
    [k \in DOMAIN calls[c].ret.value.metrics |->
        IF k = "byIntent" THEN Deref(calls[c].ret.value.metrics[k], m)
        ELSE calls[c].ret.value.metrics[k]]

\* C24: the objects one process() call hands back are isolated from every
\* other call: each call has its own trace holding only its own records,
\* also when calls interleave (one classifying record, of its own
\* classification), and the trace and the metrics snapshot a call returned,
\* the snapshot's byIntent map included, read the same after every step of
\* any other process() call; the snapshot itself takes the counters as they
\* are.
C24_ReturnedObjectsIsolated ==
    [][\A c \in DOMAIN calls :
           /\ Len(SelectSeq(calls[c].trace, LAMBDA r : r.state = STATES.CLASSIFYING)) = 1
           /\ calls[c].trace[1].intent = calls[c].classification.intent
           /\ HasReturned(c) =>
                  /\ calls'[c].ret = calls[c].ret
                  /\ calls[c].ret.value.trace = calls[c].trace
                  /\ \A k \in Counters :
                         calls[c].ret.value.metrics[k] = calls[c].metrics[k]
                  /\ ReadSnapshot(c, metrics') = ReadSnapshot(c, metrics)]_vars

\* the task type of the definition table a candidate was scored for
TaskTypeOf(candidate) ==
    TASK_TYPES[CHOOSE tx \in DOMAIN TASK_TYPES : TASK_TYPES[tx].id = candidate.taskType]

\* 0.3 for each matched pattern and 0.1 for each matched keyword, added in
\* the order of the scoring loop
MatchScore(candidate) ==
    AddTimes(AddTimes(Zero, Num(6), candidate.matchedPatterns), Num(2), candidate.matchedKeywords)

\* C25: the entity boost is one-time per task type: in one scoring pass the
\* score of a task type receives its confidence_boost at most once, so a
\* candidate's confidence is its match score, or its match score plus one
\* boost, capped at 1.0 (shell_command is boosted once when the text yields
\* both a git operation and installed packages).
C25_BoostAtMostOnce ==
    cphase # "input" =>
        \A k \in DOMAIN cscores :
            cscores[k].confidence \in
                {NumMin(MatchScore(cscores[k]), Num(20)),
                 NumMin(NumAdd(MatchScore(cscores[k]), TaskTypeOf(cscores[k]).confidence_boost),
                        Num(20))}

\* the position of a candidate's task type in the definition table
TableIndex(candidate) ==
    CHOOSE tx \in DOMAIN TASK_TYPES : TASK_TYPES[tx].id = candidate.taskType

\* C26: the scorer returns only task types with a confidence above 0,
\* sorted by confidence descending, exact ties in the order of the
\* definition table; classify picks the first element, so among equal top
\* scores the first-defined task type, and keeps at most the first 3
\* candidates in allScores.
C26_ScoresSortedTiesInTableOrder ==
    cphase # "input" =>
        /\ \A k \in DOMAIN cscores : NumLt(Zero, cscores[k].confidence)
        /\ \A j, k \in DOMAIN cscores :
               j < k =>
                   /\ ~NumLt(cscores[j].confidence, cscores[k].confidence)
                   /\ cscores[j].confidence = cscores[k].confidence =>
                          TableIndex(cscores[j]) < TableIndex(cscores[k])
        /\ Len(cresult.allScores) <= 3
        /\ cresult.allScores = SubSeq(cscores, 1, Len(cresult.allScores))
        /\ Len(cscores) >= 3 => Len(cresult.allScores) = 3
        /\ Len(cscores) > 0 =>
               /\ cresult.intent = cscores[1].taskType
               /\ cresult.confidence = cscores[1].confidence
               /\ \A k \in DOMAIN cscores :
                      cscores[k].confidence = cresult.confidence =>
                          TableIndex(cscores[1]) <= TableIndex(cscores[k])

\* an input with more than 3 candidates, two of them tied at the top
C26_Witness ==
    /\ cphase # "input"
    /\ Len(cscores) > 3
    /\ cscores[1].confidence = cscores[2].confidence
    /\ Len(cresult.allScores) = 3

\* the number of entity conditions of the scoring loop that hold for a
\* candidate: each adds the task type's confidence_boost
BoostsOf(candidate) ==
    Cardinality({cond \in {"filePaths", "urls", "gitOps", "packages"} :
        /\ Len(candidate.entities[cond]) > 0
        /\ candidate.taskType \in
               (CASE cond = "filePaths" -> {"file_read", "file_write", "file_edit", "code_analysis"}
                  [] cond = "urls" -> {"http_request"}
                  [] OTHER -> {"shell_command"})})

\* C27: for every task type the confidence is min(0.3 * matched patterns +
\* 0.1 * matched keywords + entity boost, 1.0), the sum taken in double
\* precision in the order of the scoring loop; so every candidate's
\* confidence lies in (0, 1], and the confidence classify returns lies in
\* [0, 1] and is 0 only for the intent unknown.
C27_ConfidenceClamped ==
    cphase # "input" =>
        /\ \A k \in DOMAIN cscores :
               /\ cscores[k].confidence =
                      NumMin(AddTimes(MatchScore(cscores[k]),
                                      TaskTypeOf(cscores[k]).confidence_boost,
                                      BoostsOf(cscores[k])),
                             Num(20))
               /\ NumLt(Zero, cscores[k].confidence)
               /\ ~NumLt(Num(20), cscores[k].confidence)
        /\ ~NumLt(cresult.confidence, Zero)
        /\ ~NumLt(Num(20), cresult.confidence)
        /\ cresult.confidence = Zero <=> cresult.intent = "unknown"

\* a candidate whose raw sum is above 1.0 has been clamped
C27_Witness ==
    /\ cphase # "input"
    /\ \E k \in DOMAIN cscores :
           /\ NumLt(Num(20), AddTimes(MatchScore(cscores[k]),
                                      TaskTypeOf(cscores[k]).confidence_boost,
                                      BoostsOf(cscores[k])))
           /\ cscores[k].confidence = Num(20)
           /\ cresult.confidence = Num(20)

\* every argument the tool's definition requires is in the step and filled
Filled(step) ==
    \A a \in Required(step.tool) : Has(step.args, a) /\ step.args[a] # Null

\* C28: whenever planFromIntent returns requiresModelForPlanning = false the
\* plan has at least one step and no step carries null for an argument the
\* tool's definition marks as required, so the deterministic EXECUTING stage
\* never sees an empty plan or an unfilled required argument.
C28_DeterministicPlanIsFilled ==
    (cphase = "planned" /\ ~cplan.requiresModelForPlanning) =>
        /\ Len(cplan.steps) >= 1
        /\ \A k \in DOMAIN cplan.steps : Filled(cplan.steps[k])

\* a deterministic plan whose step carries null for an argument that is not
\* required: the body of an http_request
C28_Witness ==
    /\ cphase = "planned"
    /\ ~cplan.requiresModelForPlanning
    /\ cplan.steps[1].tool = "http_request"
    /\ cplan.steps[1].args.body = Null
    /\ cplan.steps[1].args.method = "POST"

\* run() has settled
RunSettled == arun.pc = "done"

\* a tool result of the last iteration carried task_complete or task_failed
Signalled ==
    \E k \in DOMAIN arun.toolResults : arun.toolResults[k].signal \in {"COMPLETE", "FAILED"}

\* C29: run() of a fresh Agent terminates whenever the provider and the
\* tools settle: it calls provider.chat at most config.maxIterations times
\* (a turn without tool calls consumes an iteration too) and then returns;
\* the status it returns is complete, failed or error, never idle or
\* running, and it is error with the summary "Exceeded max iterations (N)"
\* exactly when the limit was reached without a task_complete or task_failed
\* signal and without an exception.
C29_RunReturnsWithinLimit ==
    /\ arun.chats <= agent.config.maxIterations
    /\ arun.chats = agent.iteration
    /\ arun.pc \in {"idle", AT_CHAT, AT_EXEC, "done"}
    /\ RunSettled =>
           /\ arun.ret.settled = "resolved"
           /\ arun.ret.value.status = agent.status
           /\ arun.ret.value.status \in {"complete", "failed", "error"}
           /\ (/\ arun.ret.value.status = "error"
               /\ arun.ret.value.summary = ExceededMaxIterations(agent.config))
              <=> (/\ arun.chats = agent.config.maxIterations
                   /\ ~Signalled
                   /\ ~arun.caught)

\* the command line the step's tool hands to the shell
CommandLine(step) ==
    CASE step.tool = "run_command"  -> step.args.command
      [] step.tool = "git"          -> "git " \o step.args.args
      [] step.tool = "search_files" -> GrepCommand(step.args)

\* the command line contains an entry of config.blockedCommands or, in
\* sandbox mode, a destructive fragment
Forbidden(command) ==
    \/ \E k \in DOMAIN config.blockedCommands : includes(command, config.blockedCommands[k])
    \/ /\ config.sandboxMode
       /\ \E k \in DOMAIN destructive : includes(toLowerCase(command), destructive[k])

\* C30: no tool call made through executeTool hands the shell a command
\* line that contains an entry of config.blockedCommands nor, in sandbox
\* mode, a destructive fragment: such a call returns {success: false, error}
\* and executes nothing, for every tool that runs a shell command
\* (run_command, git, search_files).
C30_NoForbiddenCommandReachesShell ==
    /\ \A k \in DOMAIN shell : ~Forbidden(shell[k])
    /\ (tstep # UndefinedV /\ Forbidden(CommandLine(tstep))) =>
           /\ ~tresult.success
           /\ Has(tresult, "error")

==============================================================================
